---- MODULE Spec2Model ----
(***************************************************************************)
(* Alert pipeline of the Discord alerting bot: dedup gate, lifecycle       *)
(* expiry, chat emit (sendOrUpdateAlert), button handlers, mention         *)
(* escalation loop and state reconciler, for one incident key              *)
(* (alertId "fp1", no resource); webhook batches (processAlerts); the SNS  *)
(* adapter and the SQS poller, where every message has its own alertId;    *)
(* the alerts config (file, database row, cache, validateAlertsConfig) and *)
(* the HTTP endpoints with their bearer-token check.                       *)
(*                                                                         *)
(* Every handler is an async function: it runs atomically between two      *)
(* awaits and may interleave with other handlers at each await.  A handler *)
(* instance occupies a slot of `task`; its pc names the await it is        *)
(* suspended at.  The clock advances in steps of one escalation interval   *)
(* (60 s) and only while no handler is in flight (a handler takes          *)
(* milliseconds).  Times are in milliseconds.                              *)
(***************************************************************************)
EXTENDS Integers, Sequences, FiniteSets, TLC

VARIABLES
  now,        \* Date.now(), ms since process start
  dedupExp,   \* Redis key dedup:fp1 -- absolute expiry in ms, 0 when the key is absent
  stored,     \* Redis key alert:fp1:default -- << >> or <<record>>
  messages,   \* ids of the chat messages that exist in channel c1
  buttons,    \* buttons[id]: components of message id ("all", "noack", "none")
  threads,    \* ids of the threads that exist
  posts,      \* posts sent into threads / the channel besides alert messages
  metrics,    \* in-memory counters
  audit,      \* rows of table alert_events
  task,       \* handler instances, one per slot
  escDue,     \* the escalation interval elapsed and its callback has not started yet
  reconDue,   \* the reconciler timer elapsed and its run has not started yet
  nAlerts,    \* number of alerts submitted so far (bounded)
  nClicks,    \* number of user actions (clicks, deletions) so far (bounded)
  ackLive,    \* history: Acknowledge was persisted and since then the record
              \* was neither resolved nor deleted
  queue,      \* the SQS alert queue: one record per message ever published
  batch,      \* alerts of the webhook batch processAlerts has still to handle
  cachedConfig, \* services/config.ts cachedConfig: rule name -> AlertTypeConfig
  dbConfig,   \* table alerts_config, row 1
  fileData,   \* what is at ALERT_CONFIG_PATH
  guides,     \* table troubleshooting_guides: rule names that have a guide
  response    \* the last HTTP response sent, with its request

vars == <<now, dedupExp, stored, messages, buttons, threads, posts, metrics,
          audit, task, escDue, reconDue, nAlerts, nClicks, ackLive, queue, batch,
          cachedConfig, dbConfig, fileData, guides, response>>

----------------------------------------------------------------------------
(* Bounds of the model *)

MaxTimeMin == 17
MaxAlerts == 2
MaxUserActions == 1
EventEveryMin == 4
LongTimeMin == 100
LongStepMin == 20
LongMaxAlerts == 3
LongMaxUserActions == 2

(* JS undefined / null for an optional number, time or id, and for a string *)
NoNum == -1
Undef == "undefined"

----------------------------------------------------------------------------
(* Program constants *)

RESOLVED_NEW_ALERT_AFTER_MS == 30 * 60 * 1000
ACK_NEW_INCIDENT_AFTER_MS == 90 * 60 * 1000
ACK_MIN_SUPPRESS_MS == 10 * 60 * 1000
ACK_REMINDER_AFTER_MS == 60 * 60 * 1000
MENTION_ESCALATION_INTERVAL_MS == 60 * 1000
MENTION_ESCALATION_STEP_MS == 5 * 60 * 1000
RECONCILE_INITIAL_DELAY_MS == 5 * 60 * 1000
RECONCILE_INTERVAL_MS == 30 * 60 * 1000
DefaultSuppressWindowMs == 5 * 60 * 1000

(* process.env.DATABASE_URL is set: the audit log is on *)
DatabaseConfigured == TRUE

(* An AlertTypeConfig.  An absent list is the empty list (the code only asks
   for list?.length), an absent number is NoNum, an absent string is Undef *)
AlertTypeConfig(channelId, suppressWindowMs, mentions) ==
  [channelId |-> channelId, suppressWindowMs |-> suppressWindowMs,
   importantLabels |-> << >>, hiddenLabels |-> << >>, thumbnailUrl |-> Undef,
   mentions |-> mentions]

(* The alerts config the process starts with (bootstrapAlertsConfig):
   rule name -> AlertTypeConfig *)
AlertsConfig ==
  [HighCPU |-> AlertTypeConfig("c1", 300000, <<"u1", "u2">>)]

(* getAlertsConfig()[ruleName ?? "default"], with the fields of a missing entry
   read as undefined *)
getAlertsConfig(ruleName) ==
  LET key == IF ruleName = Undef THEN "default" ELSE ruleName
  IN IF key \in DOMAIN cachedConfig
       THEN cachedConfig[key]
       ELSE [channelId |-> Undef, suppressWindowMs |-> NoNum, mentions |-> << >>]

----------------------------------------------------------------------------
(* Alerts config: JSON values, validateAlertsConfig, reloadAlertsConfigSafe *)

(* JSON values a config is made of: a string, a number, an array, or nothing *)
JString(s) == [t |-> "string", s |-> s, n |-> 0, items |-> << >>]
JNumber(n) == [t |-> "number", s |-> "", n |-> n, items |-> << >>]
JArray(items) == [t |-> "array", s |-> "", n |-> 0, items |-> items]
JAbsent == [t |-> "undefined", s |-> "", n |-> 0, items |-> << >>]

(* One value of the config object: a JSON object with the AlertTypeConfig keys *)
JEntry(channelId, suppressWindowMs, importantLabels, hiddenLabels, thumbnailUrl, mentions) ==
  [t |-> "object", channelId |-> channelId, suppressWindowMs |-> suppressWindowMs,
   importantLabels |-> importantLabels, hiddenLabels |-> hiddenLabels,
   thumbnailUrl |-> thumbnailUrl, mentions |-> mentions]

(* One value of the config object that is null, a string, a number or an array *)
JNotEntry(t) ==
  [t |-> t, channelId |-> JAbsent, suppressWindowMs |-> JAbsent,
   importantLabels |-> JAbsent, hiddenLabels |-> JAbsent,
   thumbnailUrl |-> JAbsent, mentions |-> JAbsent]

(* A parsed JSON document: an object with its entries, or null / array / primitive *)
JObject(entries) == [t |-> "object", entries |-> entries]
JNotObject(t) == [t |-> t, entries |-> << >>]

(* The strings of a JSON array of strings, as the list the program reads *)
Strings(items) == [i \in 1..Len(items) |-> items[i].s]

(* JSON.stringify of a list: an empty (absent) list is no key at all *)
JList(list) ==
  IF Len(list) = 0 THEN JAbsent ELSE JArray([i \in 1..Len(list) |-> JString(list[i])])

(* JSON.parse(JSON.stringify(config)): the document a config is sent or stored as *)
Serialize(config) ==
  JObject([k \in DOMAIN config |->
     JEntry(JString(config[k].channelId),
            IF config[k].suppressWindowMs = NoNum THEN JAbsent
              ELSE JNumber(config[k].suppressWindowMs),
            JList(config[k].importantLabels),
            JList(config[k].hiddenLabels),
            IF config[k].thumbnailUrl = Undef THEN JAbsent
              ELSE JString(config[k].thumbnailUrl),
            JList(config[k].mentions))])

(* value !== null && typeof value === "object" && "channelId" in value &&
   typeof value.channelId === "string"; typeof [] is "object" too *)
isAlertTypeConfig(value) ==
  /\ value.t \in {"object", "array"}
  /\ value.channelId.t = "string"

(* Faulty variant of ValidatedMentions: the elements are not filtered *)
ValidatedMentionsUnfiltered(mentions) ==
  IF mentions.t = "array" THEN Strings(mentions.items) ELSE << >>

(* Array.isArray(value.mentions) ? value.mentions.filter(string) : undefined *)
ValidatedMentions(mentions) ==
  IF mentions.t = "array"
    THEN Strings(SelectSeq(mentions.items, LAMBDA x : x.t = "string"))
    ELSE << >>

(* The entry validateAlertsConfig builds from a value that passed isAlertTypeConfig *)
ValidatedEntry(value) ==
  [channelId |-> value.channelId.s,
   suppressWindowMs |-> IF value.suppressWindowMs.t = "number"
                          THEN value.suppressWindowMs.n ELSE NoNum,
   importantLabels |-> Strings(value.importantLabels.items),
   hiddenLabels |-> Strings(value.hiddenLabels.items),
   thumbnailUrl |-> IF value.thumbnailUrl.t = "string"
                      THEN value.thumbnailUrl.s ELSE Undef,
   mentions |-> ValidatedMentions(value.mentions)]

NoConfig == [k \in {} |-> JAbsent]

validateAlertsConfig(data) ==
  IF data.t # "object"
    THEN [ok |-> FALSE, error |-> "Config must be a JSON object", config |-> NoConfig]
  ELSE IF \E k \in DOMAIN data.entries : ~isAlertTypeConfig(data.entries[k])
    THEN [ok |-> FALSE, error |-> "Entry must be an object with channelId (string)",
          config |-> NoConfig]
  ELSE [ok |-> TRUE, error |-> "",
        config |-> [k \in DOMAIN data.entries |-> ValidatedEntry(data.entries[k])]]

(* data as AlertsConfig: the parsed document read through the AlertTypeConfig
   fields, nothing checked and nothing filtered *)
AsAlertsConfig(data) ==
  [k \in DOMAIN data.entries |->
     [channelId |-> IF data.entries[k].channelId.t = "string"
                      THEN data.entries[k].channelId.s ELSE Undef,
      suppressWindowMs |-> IF data.entries[k].suppressWindowMs.t = "number"
                             THEN data.entries[k].suppressWindowMs.n ELSE NoNum,
      importantLabels |-> Strings(data.entries[k].importantLabels.items),
      hiddenLabels |-> Strings(data.entries[k].hiddenLabels.items),
      thumbnailUrl |-> IF data.entries[k].thumbnailUrl.t = "string"
                         THEN data.entries[k].thumbnailUrl.s ELSE Undef,
      mentions |-> Strings(data.entries[k].mentions.items)]]

(* Configs an operator writes: every entry routes to channel c1 *)
WellTypedConfigs ==
  { AlertsConfig,
    NoConfig,
    [default |-> AlertTypeConfig("c1", NoNum, << >>)],
    [HighCPU |-> [AlertTypeConfig("c1", 600000, <<"u1">>)
                    EXCEPT !.importantLabels = <<"instance">>,
                           !.thumbnailUrl = "http://img"],
     default |-> AlertTypeConfig("c1", NoNum, << >>)] }

(* Documents that are no config, and one whose mentions hold a number *)
IllTypedDocuments ==
  { JNotObject("null"), JNotObject("array"), JNotObject("string"),
    JNotObject("number"),
    JObject([HighCPU |-> JNotEntry("null")]),
    JObject([HighCPU |-> JNotEntry("string")]),
    JObject([HighCPU |-> JNotEntry("array")]),
    JObject([HighCPU |-> JNotEntry("object")]),
    JObject([HighCPU |-> JEntry(JNumber(7), JAbsent, JAbsent, JAbsent, JAbsent, JAbsent)]),
    JObject([HighCPU |-> JEntry(JString("c1"), JAbsent, JAbsent, JAbsent, JAbsent, JAbsent),
             NoRule |-> JEntry(JAbsent, JNumber(60000), JAbsent, JAbsent, JAbsent, JAbsent)]) }

MixedMentions ==
  JObject([HighCPU |-> JEntry(JString("c1"), JNumber(300000), JAbsent, JAbsent, JAbsent,
                              JArray(<<JString("u1"), JNumber(7), JString("u2")>>))])

EmptyMentions ==
  JObject([HighCPU |-> JEntry(JString("c1"), JAbsent, JAbsent, JAbsent, JAbsent,
                              JArray(<< >>))])

(* Request bodies of POST /push-config *)
Bodies ==
  IllTypedDocuments \cup {MixedMentions, EmptyMentions}
    \cup { Serialize(c) : c \in WellTypedConfigs }

(* What can be at ALERT_CONFIG_PATH: no file, text that is not JSON, or a JSON
   document.  An object in the file has strings where strings are expected *)
Files ==
  { [kind |-> "missing", data |-> JNotObject("null")],
    [kind |-> "invalid", data |-> JNotObject("null")] }
    \cup { [kind |-> "json", data |-> d] :
             d \in { JNotObject("null"), JNotObject("array"), JNotObject("string"),
                     JObject([HighCPU |-> JNotEntry("null")]) }
                   \cup { Serialize(c) : c \in WellTypedConfigs } }

(* reloadAlertsConfigSafe: the result it returns *)
reloadAlertsConfigSafe ==
  IF fileData.kind = "missing"
    THEN [ok |-> FALSE, error |-> "Config file not found", config |-> NoConfig]
  ELSE IF fileData.kind = "invalid"
    THEN [ok |-> FALSE, error |-> "Invalid JSON", config |-> NoConfig]
  ELSE IF fileData.data.t # "object"
    THEN [ok |-> FALSE, error |-> "Config must be a JSON object", config |-> NoConfig]
  ELSE [ok |-> TRUE, error |-> "", config |-> AsAlertsConfig(fileData.data)]

(* Faulty variant of ReloadedCache: a failed reload empties the cache *)
ReloadedCacheCleared(result) ==
  IF result.ok THEN result.config ELSE NoConfig

(* reloadAlertsConfigSafe: cachedConfig after the call *)
ReloadedCache(result) ==
  IF result.ok THEN result.config ELSE cachedConfig

----------------------------------------------------------------------------
(* Alerts and users *)

(* The canonical alerts the sources submit *)
Payload(rule, status, severity) ==
  [alertId |-> "fp1", ruleName |-> rule, status |-> status,
   severity |-> severity, resolvedAt |-> NoNum,
   channelId |-> getAlertsConfig(rule).channelId]

Payloads ==
  { Payload("HighCPU", "firing", "critical"),
    Payload("HighCPU", "firing", "warning"),
    Payload("HighCPU", "resolved", "critical"),
    Payload("NoRule", "firing", "critical") }

NoPayload ==
  [alertId |-> "fp1", ruleName |-> "", status |-> "", severity |-> "",
   resolvedAt |-> NoNum, channelId |-> Undef]

Users == {"op1"}

Max(a, b) == IF a >= b THEN a ELSE b

CeilDiv(a, b) == (a + b - 1) \div b

(* ttlSec of isDuplicate / setDedupTtl *)
TtlSec(ttlMs) == Max(1, CeilDiv(ttlMs, 1000))

(* redis.get(dedupKey) !== null *)
DedupExists == dedupExp > now

(* Faulty variant of DedupSetex: the key is not recorded *)
DedupSetexDropped(ttlSec) == 0

(* redis.setex(dedupKey, ttlSec, "1") *)
DedupSetex(ttlSec) == now + ttlSec * 1000

----------------------------------------------------------------------------
(* Incident store *)

getStoredAlert == stored

setStoredAlert(data) == <<data>>

deleteStoredAlert == << >>

Exists(s) == Len(s) > 0

(* stored.mentionLevel ?? 0 *)
Level(r) == IF r.mentionLevel = NoNum THEN 0 ELSE r.mentionLevel

(* The history variable ackLive after the store becomes s *)
AckLiveAfter(s, byAck) ==
  IF byAck THEN TRUE
  ELSE IF ~Exists(s) \/ s[1].state = "resolved" THEN FALSE
  ELSE ackLive

----------------------------------------------------------------------------
(* Handler instances *)

Slots == {1, 2}

NoPre == [dedupExp |-> 0, stored |-> << >>, audit |-> << >>,
          messages |-> {}, posts |-> 0, dedupSuppressed |-> 0, received |-> 0, sent |-> 0]

IdleTask ==
  [kind |-> "idle", pc |-> "idle", outcome |-> "none", payload |-> NoPayload,
   stored |-> << >>, sstored |-> << >>, msg |-> NoNum, thread |-> NoNum,
   user |-> Undef, cleared |-> FALSE, emits |-> 0, pre |-> NoPre,
   channel |-> Undef, err |-> NoNum, body |-> << >>, config |-> << >>]

Free(t) == task[t].pc \in {"idle", "done"}

InFlight == { t \in Slots : ~Free(t) }

Pre == [dedupExp |-> dedupExp, stored |-> stored, audit |-> audit,
        messages |-> messages, posts |-> Len(posts),
        dedupSuppressed |-> metrics.dedupSuppressed,
        received |-> metrics.received, sent |-> metrics.sent]

Inc(name) == [metrics EXCEPT ![name] = @ + 1]

(* External events (alerts, clicks, deletions) arrive at these instants *)
EventInstant ==
  \/ now % (EventEveryMin * 60 * 1000) = 0
  \/ now % (LongStepMin * 60 * 1000) = 0

Init ==
  /\ now = 0
  /\ dedupExp = 0
  /\ stored = << >>
  /\ messages = {}
  /\ buttons = << >>
  /\ threads = {}
  /\ posts = << >>
  /\ metrics = [received |-> 0, sent |-> 0, dedupSuppressed |-> 0,
                noConfig |-> 0, discordErrors |-> 0]
  /\ audit = << >>
  /\ task = [t \in Slots |-> IdleTask]
  /\ escDue = FALSE
  /\ reconDue = FALSE
  /\ nAlerts = 0
  /\ nClicks = 0
  /\ ackLive = FALSE
  /\ queue = << >>
  /\ batch = << >>
  /\ cachedConfig = AlertsConfig
  /\ dbConfig = AlertsConfig
  /\ fileData = [kind |-> "json", data |-> Serialize(AlertsConfig)]
  /\ guides = {}
  /\ response = [n |-> 0, route |-> "", authorized |-> FALSE, status |-> 0]

chatVars == <<messages, buttons, threads, posts>>

timerVars == <<now, escDue, reconDue>>

(* Where alerts come from besides a single submitted alert *)
feedVars == <<queue, batch>>

(* The alerts config (cache, database, file) and the troubleshooting guides *)
configVars == <<cachedConfig, dbConfig, fileData, guides>>

Finish(t, outcome) == [task EXCEPT ![t].pc = "done", ![t].outcome = outcome]

----------------------------------------------------------------------------
(* Processor: processOneAlertPayload *)

(* Faulty variant of DedupGate: resolved events go through the dedup test as well *)
DedupGateTestsResolved(p) == "isDuplicateGet"

(* The dedup gate: resolved events clear the key, others are tested *)
DedupGate(p) == IF p.status = "resolved" THEN "clearDedup" ELSE "isDuplicateGet"

(* Synchronous start: received counter, rule lookup, dedup gate.  The caller
   says what happens to the queue and the batch the alert came from *)
processOneAlertPayload(t, p) ==
  /\ Free(t)
  /\ EventInstant
  /\ nAlerts' = nAlerts + 1
  /\ LET config == getAlertsConfig(p.ruleName)
         fresh == [IdleTask EXCEPT !.kind = "alert", !.payload = p, !.pre = Pre]
     IN IF config.channelId = Undef
          THEN /\ metrics' = [metrics EXCEPT !.received = @ + 1, !.noConfig = @ + 1]
               /\ task' = [task EXCEPT ![t] =
                             [fresh EXCEPT !.pc = "done", !.outcome = "no_config"]]
          ELSE /\ metrics' = Inc("received")
               /\ task' = [task EXCEPT ![t] = [fresh EXCEPT !.pc = DedupGate(p)]]
  /\ UNCHANGED <<dedupExp, stored, chatVars, audit, timerVars, nClicks, ackLive>>

(* await clearDedup(alertId): redis.del *)
clearDedup(t) ==
  /\ task[t].kind = "alert" /\ task[t].pc = "clearDedup"
  /\ dedupExp' = 0
  /\ task' = [task EXCEPT ![t].pc = "load", ![t].cleared = TRUE]
  /\ UNCHANGED <<stored, chatVars, metrics, audit, timerVars, nAlerts, nClicks, ackLive,
                 feedVars, configVars, response>>

(* config.suppressWindowMs ?? 5 * 60 * 1000 *)
SuppressWindowMs(config) ==
  IF config.suppressWindowMs = NoNum THEN DefaultSuppressWindowMs
  ELSE config.suppressWindowMs

(* Faulty variant of DedupAfterHit: a hit refreshes the TTL *)
DedupAfterHitRefreshed(ttlMs) == now + TtlSec(ttlMs) * 1000

(* The key after isDuplicate found it: "if (exists !== null) return true" leaves
   the key and its TTL alone *)
DedupAfterHit(ttlMs) == dedupExp

(* isDuplicate, first await: exists = redis.get(key); a hit returns true and the
   processor counts the suppression and returns *)
isDuplicateGet(t) ==
  /\ task[t].kind = "alert" /\ task[t].pc = "isDuplicateGet"
  /\ IF DedupExists
       THEN /\ dedupExp' = DedupAfterHit(SuppressWindowMs(getAlertsConfig(task[t].payload.ruleName)))
            /\ metrics' = Inc("dedupSuppressed")
            /\ task' = Finish(t, "dedup")
       ELSE /\ dedupExp' = dedupExp
            /\ metrics' = metrics
            /\ task' = [task EXCEPT ![t].pc = "isDuplicateSetex"]
  /\ UNCHANGED <<stored, chatVars, audit, timerVars, nAlerts, nClicks, ackLive, feedVars,
                 configVars, response>>

(* isDuplicate, second await: redis.setex(key, ttlSec, "1"); returns false *)
isDuplicateSetex(t) ==
  /\ task[t].kind = "alert" /\ task[t].pc = "isDuplicateSetex"
  /\ dedupExp' = DedupSetex(TtlSec(SuppressWindowMs(getAlertsConfig(task[t].payload.ruleName))))
  /\ task' = [task EXCEPT ![t].pc = "load"]
  /\ UNCHANGED <<stored, chatVars, metrics, audit, timerVars, nAlerts, nClicks, ackLive,
                 feedVars, configVars, response>>

(* Faulty variant of ResolvedExpired: a resolved record never expires *)
ResolvedExpiredNever(s) == FALSE

(* resolvedAt = stored?.resolvedAt ?? (stored?.state === "resolved" ? stored?.updatedAt : null);
   resolvedAt && Date.now() - resolvedAt > RESOLVED_NEW_ALERT_AFTER_MS *)
ResolvedExpired(s) ==
  /\ Exists(s)
  /\ LET resolvedAt == IF s[1].resolvedAt # NoNum THEN s[1].resolvedAt
                       ELSE IF s[1].state = "resolved" THEN s[1].updatedAt
                       ELSE NoNum
     IN resolvedAt # NoNum /\ now - resolvedAt > RESOLVED_NEW_ALERT_AFTER_MS

(* stored?.state === "acknowledged" && stored.acknowledgedAt && ... > ACK_NEW_INCIDENT_AFTER_MS *)
AckExpired(s) ==
  /\ Exists(s)
  /\ s[1].state = "acknowledged"
  /\ s[1].acknowledgedAt # NoNum
  /\ now - s[1].acknowledgedAt > ACK_NEW_INCIDENT_AFTER_MS

(* await getStoredAlert: the processor's prior record *)
procLoad(t) ==
  /\ task[t].kind = "alert" /\ task[t].pc = "load"
  /\ LET s == getStoredAlert
     IN task' = [task EXCEPT ![t].stored = s,
                             ![t].pc = IF ResolvedExpired(s) THEN "deleteResolved"
                                       ELSE IF AckExpired(s) THEN "deleteAck"
                                       ELSE "emit"]
  /\ UNCHANGED <<dedupExp, stored, chatVars, metrics, audit, timerVars, nAlerts, nClicks, ackLive,
                 feedVars, configVars, response>>

(* await deleteStoredAlert after a resolve older than 30 min *)
procDeleteResolved(t) ==
  /\ task[t].kind = "alert" /\ task[t].pc = "deleteResolved"
  /\ stored' = deleteStoredAlert
  /\ ackLive' = AckLiveAfter(stored', FALSE)
  /\ task' = [task EXCEPT ![t].pc = IF AckExpired(task[t].stored) THEN "deleteAck" ELSE "emit"]
  /\ UNCHANGED <<dedupExp, chatVars, metrics, audit, timerVars, nAlerts, nClicks,
                 feedVars, configVars, response>>

(* await deleteStoredAlert after an acknowledge older than 90 min *)
procDeleteAck(t) ==
  /\ task[t].kind = "alert" /\ task[t].pc = "deleteAck"
  /\ stored' = deleteStoredAlert
  /\ ackLive' = AckLiveAfter(stored', FALSE)
  /\ task' = [task EXCEPT ![t].pc = "emit"]
  /\ UNCHANGED <<dedupExp, chatVars, metrics, audit, timerVars, nAlerts, nClicks,
                 feedVars, configVars, response>>

----------------------------------------------------------------------------
(* Chat mirror: sendOrUpdateAlert *)

(* Outcomes of a chat API call that can fail (TRUE: it succeeds) *)
ChatOutcomes == {TRUE, FALSE}

(* components of the message: the three buttons for firing, none otherwise *)
Components(p) == IF p.status = "firing" THEN "all" ELSE "none"

Post(kind, user, level, base) ==
  [kind |-> kind, user |-> user, level |-> level, at |-> now, base |-> base]

(* Faulty variant of UpdatedRecord: the earlier resolve and acknowledge times
   are not carried over *)
UpdatedRecordForgets(p, s, newThreadId) ==
  [messageId |-> s.messageId, channelId |-> p.channelId, threadId |-> newThreadId,
   state |-> IF p.status = "resolved" THEN "resolved" ELSE "firing",
   updatedAt |-> now, ruleName |-> p.ruleName, severity |-> p.severity,
   acknowledgedBy |-> s.acknowledgedBy, resolvedBy |-> s.resolvedBy,
   resolvedAt |-> IF p.status = "resolved" THEN now ELSE NoNum,
   acknowledgedAt |-> NoNum, mentionLevel |-> NoNum]

(* The record the update path persists (s: the record read at the start) *)
UpdatedRecord(p, s, newThreadId) ==
  [messageId |-> s.messageId,
   channelId |-> p.channelId,
   threadId |-> newThreadId,
   state |-> IF p.status = "resolved" THEN "resolved"
             ELSE IF p.status = "acknowledged" THEN "acknowledged" ELSE "firing",
   updatedAt |-> now,
   ruleName |-> p.ruleName,
   severity |-> p.severity,
   acknowledgedBy |-> s.acknowledgedBy,
   resolvedBy |-> s.resolvedBy,
   resolvedAt |-> IF p.status = "resolved"
                    THEN (IF p.resolvedAt # NoNum THEN p.resolvedAt ELSE now)
                    ELSE s.resolvedAt,
   acknowledgedAt |-> s.acknowledgedAt,
   mentionLevel |-> NoNum]

(* The record the create path persists *)
CreatedRecord(p, messageId, threadId) ==
  [messageId |-> messageId,
   channelId |-> p.channelId,
   threadId |-> threadId,
   state |-> IF p.status = "resolved" THEN "resolved" ELSE "firing",
   updatedAt |-> now,
   ruleName |-> p.ruleName,
   severity |-> p.severity,
   acknowledgedBy |-> Undef,
   resolvedBy |-> Undef,
   resolvedAt |-> NoNum,
   acknowledgedAt |-> NoNum,
   mentionLevel |-> NoNum]

(* await getStoredAlert; stored?.messageId selects the update path *)
sendGet(t) ==
  /\ task[t].kind = "alert" /\ task[t].pc = "emit"
  /\ LET s == getStoredAlert
     IN task' = [task EXCEPT ![t].sstored = s,
                             ![t].emits = @ + 1,
                             ![t].pc = IF Exists(s) /\ s[1].messageId # NoNum
                                         THEN "edit" ELSE "send"]
  /\ UNCHANGED <<dedupExp, stored, chatVars, metrics, audit, timerVars, nAlerts, nClicks, ackLive,
                 feedVars, configVars, response>>

(* channels.fetch, messages.fetch(stored.messageId), message.edit(options);
   any error is caught and falls through to sending a new message *)
sendEdit(t) ==
  /\ task[t].kind = "alert" /\ task[t].pc = "edit"
  /\ \E ok \in ChatOutcomes :
       LET s == task[t].sstored[1]
       IN IF ok /\ s.messageId \in messages
            THEN /\ buttons' = [buttons EXCEPT ![s.messageId] = Components(task[t].payload)]
                 /\ task' = [task EXCEPT ![t].thread = s.threadId,
                                         ![t].pc = IF task[t].payload.status = "firing"
                                                     THEN "repeat" ELSE "writeUpdate"]
            ELSE /\ buttons' = buttons
                 /\ task' = [task EXCEPT ![t].pc = "send"]
  /\ UNCHANGED <<dedupExp, stored, messages, threads, posts, metrics, audit, timerVars,
                 nAlerts, nClicks, ackLive, feedVars, configVars, response>>

(* The acknowledged-but-not-resolved reminder is due *)
AckReminderDue(s) ==
  /\ s.state = "acknowledged"
  /\ s.acknowledgedAt # NoNum
  /\ now - s.acknowledgedAt > ACK_REMINDER_AFTER_MS
  /\ Len(getAlertsConfig(s.ruleName).mentions) > 0

(* The posts of the repeat block into thread channel: the repeat notice and,
   when due, the mention of the first responder *)
RepeatPosts(s) ==
  <<Post("repeat", Undef, NoNum, NoNum)>> \o
    (IF AckReminderDue(s)
       THEN <<Post("reminder", getAlertsConfig(s.ruleName).mentions[1], NoNum, NoNum)>>
       ELSE << >>)

(* The "Alert repeated" block of a firing update; its errors are caught *)
sendRepeat(t) ==
  /\ task[t].kind = "alert" /\ task[t].pc = "repeat"
  /\ LET s == task[t].sstored[1]
     IN IF s.threadId # NoNum
          THEN \* fetch the stored thread; Unknown Channel throws into the catch
               /\ posts' = IF s.threadId \in threads THEN posts \o RepeatPosts(s) ELSE posts
               /\ threads' = threads
               /\ task' = [task EXCEPT ![t].pc = "writeUpdate"]
          ELSE \* no thread: message.startThread, which throws when the message is gone
               IF s.messageId \in messages
                 THEN /\ threads' = threads \cup {s.messageId}
                      /\ posts' = posts \o RepeatPosts(s)
                      /\ task' = [task EXCEPT ![t].thread = s.messageId,
                                              ![t].pc = "writeUpdate"]
                 ELSE /\ threads' = threads
                      /\ posts' = posts
                      /\ task' = [task EXCEPT ![t].pc = "writeUpdate"]
  /\ UNCHANGED <<dedupExp, stored, messages, buttons, metrics, audit, timerVars,
                 nAlerts, nClicks, ackLive, feedVars, configVars, response>>

(* After the emit returned: alerts_sent_total, then the audit insert when the
   database is configured *)
AfterEmit(t, messageId) ==
  [task EXCEPT ![t].msg = messageId,
               ![t].pc = IF DatabaseConfigured THEN "audit" ELSE "done",
               ![t].outcome = IF DatabaseConfigured THEN "none" ELSE "sent"]

(* await setStoredAlert of the update path; returns stored.messageId *)
sendWriteUpdate(t) ==
  /\ task[t].kind = "alert" /\ task[t].pc = "writeUpdate"
  /\ stored' = setStoredAlert(UpdatedRecord(task[t].payload, task[t].sstored[1], task[t].thread))
  /\ ackLive' = AckLiveAfter(stored', FALSE)
  /\ metrics' = Inc("sent")
  /\ task' = AfterEmit(t, task[t].sstored[1].messageId)
  /\ UNCHANGED <<dedupExp, chatVars, audit, timerVars, nAlerts, nClicks, feedVars,
                 configVars, response>>

(* channel.send(options): a new message; a failure throws to the processor,
   which counts discord_errors_total and returns *)
sendCreate(t) ==
  /\ task[t].kind = "alert" /\ task[t].pc = "send"
  /\ \E ok \in ChatOutcomes :
       IF ok
         THEN LET id == Len(buttons) + 1
              IN /\ messages' = messages \cup {id}
                 /\ buttons' = Append(buttons, Components(task[t].payload))
                 /\ metrics' = metrics
                 /\ task' = [task EXCEPT ![t].msg = id, ![t].pc = "startThread"]
         ELSE /\ metrics' = Inc("discordErrors")
              /\ task' = Finish(t, "failed")
              /\ UNCHANGED <<messages, buttons>>
  /\ UNCHANGED <<dedupExp, stored, threads, posts, audit, timerVars, nAlerts, nClicks, ackLive,
                 feedVars, configVars, response>>

(* message.startThread on the new message; throws when the message is gone *)
sendStartThread(t) ==
  /\ task[t].kind = "alert" /\ task[t].pc = "startThread"
  /\ IF task[t].msg \in messages
       THEN /\ threads' = threads \cup {task[t].msg}
            /\ metrics' = metrics
            /\ task' = [task EXCEPT ![t].thread = task[t].msg, ![t].pc = "writeCreate"]
       ELSE /\ threads' = threads
            /\ metrics' = Inc("discordErrors")
            /\ task' = Finish(t, "failed")
  /\ UNCHANGED <<dedupExp, stored, messages, buttons, posts, audit, timerVars,
                 nAlerts, nClicks, ackLive, feedVars, configVars, response>>

(* await setStoredAlert of the create path; returns message.id *)
sendWriteCreate(t) ==
  /\ task[t].kind = "alert" /\ task[t].pc = "writeCreate"
  /\ stored' = setStoredAlert(CreatedRecord(task[t].payload, task[t].msg, task[t].thread))
  /\ ackLive' = AckLiveAfter(stored', FALSE)
  /\ metrics' = Inc("sent")
  /\ task' = AfterEmit(t, task[t].msg)
  /\ UNCHANGED <<dedupExp, chatVars, audit, timerVars, nAlerts, nClicks, feedVars,
                 configVars, response>>

(* Faulty variant of AuditRow: the row does not carry the message id *)
AuditRowNoMessage(p, messageId) ==
  [alertId |-> p.alertId, status |-> p.status, messageId |-> NoNum,
   channelId |-> p.channelId, severity |-> p.severity, ruleName |-> p.ruleName,
   acknowledgedBy |-> Undef, resolvedBy |-> Undef]

(* The row insertAlertEvent inserts into alert_events *)
AuditRow(p, messageId) ==
  [alertId |-> p.alertId, status |-> p.status, messageId |-> messageId,
   channelId |-> p.channelId, severity |-> p.severity, ruleName |-> p.ruleName,
   acknowledgedBy |-> Undef, resolvedBy |-> Undef]

(* await insertAlertEvent(apiPayload, messageId) *)
insertAlertEvent(t) ==
  /\ task[t].kind = "alert" /\ task[t].pc = "audit"
  /\ audit' = Append(audit, AuditRow(task[t].payload, task[t].msg))
  /\ task' = Finish(t, "sent")
  /\ UNCHANGED <<dedupExp, stored, chatVars, metrics, timerVars, nAlerts, nClicks, ackLive,
                 feedVars, configVars, response>>

----------------------------------------------------------------------------
(* Button handlers of interactionCreate *)

Start(kind, pc, user, msg, s) ==
  [IdleTask EXCEPT !.kind = kind, !.pc = pc, !.user = user, !.msg = msg,
                   !.stored = s, !.pre = Pre]

(* The record the Acknowledge handler persists *)
AcknowledgedRecord(s, userId) ==
  [s EXCEPT !.state = "acknowledged", !.acknowledgedBy = userId,
            !.acknowledgedAt = now, !.updatedAt = now]

(* Faulty variant of ResolvedRecord: the resolve time is not recorded *)
ResolvedRecordUntimed(s, userId) ==
  [s EXCEPT !.state = "resolved", !.resolvedBy = userId, !.updatedAt = now]

(* The record the Resolve handler persists *)
ResolvedRecord(s, userId) ==
  [s EXCEPT !.state = "resolved", !.resolvedBy = userId,
            !.resolvedAt = now, !.updatedAt = now]

(* Faulty variant of AckSuppressMs: the rule's window without the 10 min floor *)
AckSuppressMsNoFloor(ruleName) == SuppressWindowMs(getAlertsConfig(ruleName))

(* Math.max(suppressWindowMs, ACK_MIN_SUPPRESS_MS) *)
AckSuppressMs(ruleName) ==
  Max(SuppressWindowMs(getAlertsConfig(ruleName)), ACK_MIN_SUPPRESS_MS)

(* A click on the Acknowledge button of message m: await getStoredAlert *)
interactionAck(t, u, m) ==
  /\ Free(t)
  /\ m \in messages /\ buttons[m] = "all"
  /\ nClicks' = nClicks + 1
  /\ LET s == getStoredAlert
     IN task' = [task EXCEPT ![t] =
                   IF Exists(s) THEN Start("ack", "ackSetDedupTtl", u, m, s)
                   ELSE [Start("ack", "done", u, m, s) EXCEPT !.outcome = "not_found"]]
  /\ UNCHANGED <<dedupExp, stored, chatVars, metrics, audit, timerVars, nAlerts, ackLive,
                 feedVars, configVars, response>>

(* await setDedupTtl(alertId, ackSuppressMs) *)
ackSetDedupTtl(t) ==
  /\ task[t].kind = "ack" /\ task[t].pc = "ackSetDedupTtl"
  /\ dedupExp' = DedupSetex(TtlSec(AckSuppressMs(task[t].stored[1].ruleName)))
  /\ task' = [task EXCEPT ![t].pc = "ackWrite"]
  /\ UNCHANGED <<stored, chatVars, metrics, audit, timerVars, nAlerts, nClicks, ackLive,
                 feedVars, configVars, response>>

(* await setStoredAlert({...stored, state: "acknowledged", ...}) *)
ackWrite(t) ==
  /\ task[t].kind = "ack" /\ task[t].pc = "ackWrite"
  /\ stored' = setStoredAlert(AcknowledgedRecord(task[t].stored[1], task[t].user))
  /\ ackLive' = AckLiveAfter(stored', TRUE)
  /\ task' = [task EXCEPT ![t].pc = "ackFinish"]
  /\ UNCHANGED <<dedupExp, chatVars, metrics, audit, timerVars, nAlerts, nClicks,
                 feedVars, configVars, response>>

(* UPDATE alert_events ... WHERE id = (latest row of the alert) *)
UpdateLastRow(rows, field, userId, status) ==
  IF Len(rows) = 0 THEN rows
  ELSE [rows EXCEPT ![Len(rows)] =
          [@ EXCEPT ![field] = userId,
                    !.status = IF status = Undef THEN @ ELSE status]]

(* updateAlertEventAck, then interaction.update: the Acknowledge button goes *)
ackFinish(t) ==
  /\ task[t].kind = "ack" /\ task[t].pc = "ackFinish"
  /\ audit' = IF DatabaseConfigured
                THEN UpdateLastRow(audit, "acknowledgedBy", task[t].user, Undef)
                ELSE audit
  /\ buttons' = IF task[t].msg \in messages
                  THEN [buttons EXCEPT ![task[t].msg] = "noack"] ELSE buttons
  /\ task' = Finish(t, "acknowledged")
  /\ UNCHANGED <<dedupExp, stored, messages, threads, posts, metrics, timerVars,
                 nAlerts, nClicks, ackLive, feedVars, configVars, response>>

(* A click on the Resolve button of message m: await getStoredAlert *)
interactionResolve(t, u, m) ==
  /\ Free(t)
  /\ m \in messages /\ buttons[m] \in {"all", "noack"}
  /\ nClicks' = nClicks + 1
  /\ LET s == getStoredAlert
     IN task' = [task EXCEPT ![t] =
                   IF Exists(s) THEN Start("resolve", "resolveClearDedup", u, m, s)
                   ELSE [Start("resolve", "done", u, m, s) EXCEPT !.outcome = "not_found"]]
  /\ UNCHANGED <<dedupExp, stored, chatVars, metrics, audit, timerVars, nAlerts, ackLive,
                 feedVars, configVars, response>>

(* await clearDedup(alertId) *)
resolveClearDedup(t) ==
  /\ task[t].kind = "resolve" /\ task[t].pc = "resolveClearDedup"
  /\ dedupExp' = 0
  /\ task' = [task EXCEPT ![t].pc = "resolveWrite"]
  /\ UNCHANGED <<stored, chatVars, metrics, audit, timerVars, nAlerts, nClicks, ackLive,
                 feedVars, configVars, response>>

(* await setStoredAlert({...stored, state: "resolved", ...}) *)
resolveWrite(t) ==
  /\ task[t].kind = "resolve" /\ task[t].pc = "resolveWrite"
  /\ stored' = setStoredAlert(ResolvedRecord(task[t].stored[1], task[t].user))
  /\ ackLive' = AckLiveAfter(stored', FALSE)
  /\ task' = [task EXCEPT ![t].pc = "resolveFinish"]
  /\ UNCHANGED <<dedupExp, chatVars, metrics, audit, timerVars, nAlerts, nClicks,
                 feedVars, configVars, response>>

(* updateAlertEventResolve, then interaction.update: all buttons go *)
resolveFinish(t) ==
  /\ task[t].kind = "resolve" /\ task[t].pc = "resolveFinish"
  /\ audit' = IF DatabaseConfigured
                THEN UpdateLastRow(audit, "resolvedBy", task[t].user, "resolved")
                ELSE audit
  /\ buttons' = IF task[t].msg \in messages
                  THEN [buttons EXCEPT ![task[t].msg] = "none"] ELSE buttons
  /\ task' = Finish(t, "resolved")
  /\ UNCHANGED <<dedupExp, stored, messages, threads, posts, metrics, timerVars,
                 nAlerts, nClicks, ackLive, feedVars, configVars, response>>

----------------------------------------------------------------------------
(* Mention escalation loop: one setInterval callback *)

(* The guards of the loop body for record s when Date.now() is time *)
EscalationDueAt(s, time) ==
  /\ Exists(s)
  /\ s[1].state # "resolved" /\ s[1].state # "acknowledged"
  /\ s[1].severity = "critical"
  /\ LET mentions == getAlertsConfig(s[1].ruleName).mentions
         level == Level(s[1])
     IN /\ Len(mentions) > 0
        /\ level < Len(mentions)
        /\ time - s[1].updatedAt >= (level + 1) * MENTION_ESCALATION_STEP_MS

EscalationDue(s) == EscalationDueAt(s, now)

(* Faulty variant of EscalatedRecord: the escalation write stamps updatedAt *)
EscalatedRecordStamped(s) == [s EXCEPT !.mentionLevel = Level(s) + 1, !.updatedAt = now]

(* { ...stored, mentionLevel: level + 1 } *)
EscalatedRecord(s) == [s EXCEPT !.mentionLevel = Level(s) + 1]

(* The interval fires: await getStoredAlertKeys *)
escalationTick(t) ==
  /\ Free(t)
  /\ escDue
  /\ escDue' = FALSE
  /\ task' = [task EXCEPT ![t] =
                IF Exists(stored) THEN Start("esc", "escRead", Undef, NoNum, << >>)
                ELSE [Start("esc", "done", Undef, NoNum, << >>) EXCEPT !.outcome = "no_keys"]]
  /\ UNCHANGED <<now, reconDue, dedupExp, stored, chatVars, metrics, audit,
                 nAlerts, nClicks, ackLive, feedVars, configVars, response>>

(* await getStoredAlert(alertId, resource) and the guards *)
escRead(t) ==
  /\ task[t].kind = "esc" /\ task[t].pc = "escRead"
  /\ LET s == getStoredAlert
     IN task' = IF EscalationDue(s)
                  THEN [task EXCEPT ![t].stored = s, ![t].pc = "escSend"]
                  ELSE [task EXCEPT ![t].stored = s, ![t].pc = "done", ![t].outcome = "skip"]
  /\ UNCHANGED <<dedupExp, stored, chatVars, metrics, audit, timerVars, nAlerts, nClicks, ackLive,
                 feedVars, configVars, response>>

(* channels.fetch(threadId ?? channelId) and ch.send of the mention; an unknown
   thread throws into the catch *)
escSend(t) ==
  /\ task[t].kind = "esc" /\ task[t].pc = "escSend"
  /\ LET s == task[t].stored[1]
         level == Level(s)
     IN IF s.threadId # NoNum /\ s.threadId \notin threads
          THEN /\ posts' = posts
               /\ task' = Finish(t, "failed")
          ELSE /\ posts' = Append(posts, Post("escalation",
                                   getAlertsConfig(s.ruleName).mentions[level + 1],
                                   level + 1, s.updatedAt))
               /\ task' = [task EXCEPT ![t].pc = "escWrite"]
  /\ UNCHANGED <<dedupExp, stored, messages, buttons, threads, metrics, audit, timerVars,
                 nAlerts, nClicks, ackLive, feedVars, configVars, response>>

(* await setStoredAlert(alertId, resource, { ...stored, mentionLevel: level + 1 }) *)
escWrite(t) ==
  /\ task[t].kind = "esc" /\ task[t].pc = "escWrite"
  /\ stored' = setStoredAlert(EscalatedRecord(task[t].stored[1]))
  /\ ackLive' = AckLiveAfter(stored', FALSE)
  /\ task' = Finish(t, "escalated")
  /\ UNCHANGED <<dedupExp, chatVars, metrics, audit, timerVars, nAlerts, nClicks,
                 feedVars, configVars, response>>

----------------------------------------------------------------------------
(* State reconciler: one run *)

(* The timer fires: await getStoredAlertKeys *)
reconcilerRun(t) ==
  /\ Free(t)
  /\ reconDue
  /\ reconDue' = FALSE
  /\ task' = [task EXCEPT ![t] =
                IF Exists(stored) THEN Start("recon", "reconRead", Undef, NoNum, << >>)
                ELSE [Start("recon", "done", Undef, NoNum, << >>) EXCEPT !.outcome = "no_keys"]]
  /\ UNCHANGED <<now, escDue, dedupExp, stored, chatVars, metrics, audit,
                 nAlerts, nClicks, ackLive, feedVars, configVars, response>>

(* await getStoredAlert; resolved records are skipped *)
reconRead(t) ==
  /\ task[t].kind = "recon" /\ task[t].pc = "reconRead"
  /\ LET s == getStoredAlert
     IN task' = IF ~Exists(s) \/ s[1].state = "resolved"
                  THEN [task EXCEPT ![t].stored = s, ![t].pc = "done", ![t].outcome = "skip"]
                  ELSE [task EXCEPT ![t].stored = s, ![t].pc = "reconVerify"]
  /\ UNCHANGED <<dedupExp, stored, chatVars, metrics, audit, timerVars, nAlerts, nClicks, ackLive,
                 feedVars, configVars, response>>

(* What c.channels.fetch(stored.channelId).catch(() => null) can give: a text
   channel, a voice channel, a DM channel, or null after any error *)
ChannelOutcomes == {"text", "voice", "dm", "null"}

isTextBased(ch) == ch \in {"text", "dm"}

isDMBased(ch) == ch = "dm"

(* The code of the error channel.messages.fetch throws: NoNum when it
   succeeds, 10003 unknown channel, 10008 unknown message, 500 for any other
   API error, 0 for an error without a code *)
FetchErrors == {NoNum, 10003, 10008, 500, 0}

(* Faulty variant of IsGone: only an unknown message counts as gone *)
IsGoneMessageOnly(code) == code = 10008

(* code !== undefined && GONE_CODES.has(code) *)
IsGone(code) == code \in {10003, 10008}

(* Verify the channel, then the message, then the thread, with the answers ch
   and err of the chat API *)
reconVerifyChat(t, ch, err) ==
  /\ task[t].kind = "recon" /\ task[t].pc = "reconVerify"
  /\ LET s == task[t].stored[1]
         told == [task EXCEPT ![t].channel = ch, ![t].err = err]
     IN /\ err = NoNum => s.messageId \in messages
        /\ err = 10008 => s.messageId \notin messages
        /\ task' = IF ~isTextBased(ch) \/ isDMBased(ch)
                     THEN [told EXCEPT ![t].pc = "reconDelete", ![t].err = NoNum]
                   ELSE IF IsGone(err)
                     THEN [told EXCEPT ![t].pc = "reconDelete"]
                   ELSE IF s.threadId # NoNum /\ s.threadId \notin threads
                     THEN [told EXCEPT ![t].pc = "reconClearThread"]
                   ELSE [told EXCEPT ![t].pc = "done", ![t].outcome = "kept"]
  /\ UNCHANGED <<dedupExp, stored, chatVars, metrics, audit, timerVars, nAlerts, nClicks, ackLive,
                 feedVars, configVars, response>>

(* The chat API works and channel c1 exists: the message fetch fails only when
   the message was deleted *)
reconVerify(t) ==
  /\ task[t].kind = "recon" /\ task[t].pc = "reconVerify"
  /\ reconVerifyChat(t, "text",
        IF task[t].stored[1].messageId \in messages THEN NoNum ELSE 10008)

(* await deleteStoredAlert: the message is gone (code 10008) *)
reconDelete(t) ==
  /\ task[t].kind = "recon" /\ task[t].pc = "reconDelete"
  /\ stored' = deleteStoredAlert
  /\ ackLive' = AckLiveAfter(stored', FALSE)
  /\ task' = Finish(t, "orphan_deleted")
  /\ UNCHANGED <<dedupExp, chatVars, metrics, audit, timerVars, nAlerts, nClicks,
                 feedVars, configVars, response>>

(* await setStoredAlert({ ...stored, threadId: undefined }) *)
reconClearThread(t) ==
  /\ task[t].kind = "recon" /\ task[t].pc = "reconClearThread"
  /\ stored' = setStoredAlert([task[t].stored[1] EXCEPT !.threadId = NoNum])
  /\ ackLive' = AckLiveAfter(stored', FALSE)
  /\ task' = Finish(t, "thread_cleared")
  /\ UNCHANGED <<dedupExp, chatVars, metrics, audit, timerVars, nAlerts, nClicks,
                 feedVars, configVars, response>>

----------------------------------------------------------------------------
(* Environment: chat users and the clock *)

(* A chat user deletes alert message m *)
userDeletesMessage(m) ==
  /\ m \in messages
  /\ EventInstant
  /\ nClicks' = nClicks + 1
  /\ messages' = messages \ {m}
  /\ UNCHANGED <<dedupExp, stored, buttons, threads, posts, metrics, audit, task,
                 timerVars, nAlerts, ackLive, feedVars, configVars, response>>

(* A chat user deletes incident thread th *)
userDeletesThread(th) ==
  /\ th \in threads
  /\ EventInstant
  /\ nClicks' = nClicks + 1
  /\ threads' = threads \ {th}
  /\ UNCHANGED <<dedupExp, stored, messages, buttons, posts, metrics, audit, task,
                 timerVars, nAlerts, ackLive, feedVars, configVars, response>>

(* setTimeout(RECONCILE_INITIAL_DELAY_MS) then setInterval(RECONCILE_INTERVAL_MS) *)
ReconcileAt(time) ==
  /\ time >= RECONCILE_INITIAL_DELAY_MS
  /\ (time - RECONCILE_INITIAL_DELAY_MS) % RECONCILE_INTERVAL_MS = 0

(* One escalation interval passes; expired Redis keys disappear *)
Tick ==
  /\ InFlight = {}
  /\ ~escDue /\ ~reconDue
  /\ now + MENTION_ESCALATION_INTERVAL_MS <= MaxTimeMin * 60 * 1000
  /\ now' = now + MENTION_ESCALATION_INTERVAL_MS
  /\ escDue' = TRUE
  /\ reconDue' = ReconcileAt(now')
  /\ dedupExp' = IF dedupExp <= now' THEN 0 ELSE dedupExp
  /\ task' = [t \in Slots |-> IdleTask]
  /\ UNCHANGED <<stored, chatVars, metrics, audit, nAlerts, nClicks, ackLive, feedVars,
                 configVars, response>>

(* The escalation interval elapses whatever the earlier callbacks are doing:
   setInterval starts the next callback without waiting for the promise of
   the previous one *)
intervalElapses ==
  /\ ~escDue
  /\ now + MENTION_ESCALATION_INTERVAL_MS <= MaxTimeMin * 60 * 1000
  /\ now' = now + MENTION_ESCALATION_INTERVAL_MS
  /\ escDue' = TRUE
  /\ dedupExp' = IF dedupExp <= now' THEN 0 ELSE dedupExp
  /\ UNCHANGED <<reconDue, stored, chatVars, metrics, audit, task, nAlerts, nClicks,
                 ackLive, feedVars, configVars, response>>

(* A reconciler run that finds nothing to repair *)
ReconcilerIdle ==
  IF ~Exists(stored) THEN TRUE
  ELSE IF stored[1].state = "resolved" THEN TRUE
  ELSE /\ stored[1].messageId \in messages
       /\ stored[1].threadId # NoNum => stored[1].threadId \in threads

(* LongStepMin escalation intervals pass at once: the timer callbacks of the
   minutes in between find nothing to do, so only the clock moves *)
Elapse ==
  /\ InFlight = {}
  /\ ~escDue /\ ~reconDue
  /\ now % (LongStepMin * 60 * 1000) = 0
  /\ now + LongStepMin * 60 * 1000 <= LongTimeMin * 60 * 1000
  /\ \A j \in 1..(LongStepMin - 1) :
       LET time == now + j * MENTION_ESCALATION_INTERVAL_MS
       IN /\ ~EscalationDueAt(stored, time)
          /\ ReconcileAt(time) => ReconcilerIdle
  /\ now' = now + LongStepMin * 60 * 1000
  /\ escDue' = TRUE
  /\ reconDue' = ReconcileAt(now')
  /\ dedupExp' = IF dedupExp <= now' THEN 0 ELSE dedupExp
  /\ task' = [t \in Slots |-> IdleTask]
  /\ UNCHANGED <<stored, chatVars, metrics, audit, nAlerts, nClicks, ackLive, feedVars,
                 configVars, response>>

----------------------------------------------------------------------------
(* Failures of the stores *)

(* The Redis call the processor is awaiting rejects: clearDedup, isDuplicate
   (get or setex), getStoredAlert and deleteStoredAlert are awaited before the
   try block, so the rejection leaves processOneAlertPayload *)
redisRejects(t) ==
  /\ task[t].kind = "alert"
  /\ task[t].pc \in {"clearDedup", "isDuplicateGet", "isDuplicateSetex", "load",
                     "deleteResolved", "deleteAck"}
  /\ task' = Finish(t, "threw")
  /\ UNCHANGED <<dedupExp, stored, chatVars, metrics, audit, timerVars, nAlerts,
                 nClicks, ackLive, feedVars, configVars, response>>

(* setStoredAlert of the update path rejects: the catch around the edit path
   logs edit_failed and falls through to sending a new message *)
sendWriteUpdateRejects(t) ==
  /\ task[t].kind = "alert" /\ task[t].pc = "writeUpdate"
  /\ task' = [task EXCEPT ![t].pc = "send"]
  /\ UNCHANGED <<dedupExp, stored, chatVars, metrics, audit, timerVars, nAlerts,
                 nClicks, ackLive, feedVars, configVars, response>>

(* insertAlertEvent rejects: .catch logs a warning and the processor returns *)
insertAlertEventFails(t) ==
  /\ task[t].kind = "alert" /\ task[t].pc = "audit"
  /\ DatabaseConfigured
  /\ task' = Finish(t, "sent")
  /\ UNCHANGED <<dedupExp, stored, chatVars, metrics, audit, timerVars, nAlerts,
                 nClicks, ackLive, feedVars, configVars, response>>

----------------------------------------------------------------------------
(* Webhook batches: processAlerts *)

MaxBatchLen == 2
MaxBatchAlerts == 2

(* One alert of a webhook payload, with the labels processAlerts reads;
   Undef for a label the alert does not carry *)
SingleAlert(alertname, alert_type, status, severity) ==
  [alertname |-> alertname, alert_type |-> alert_type, status |-> status,
   severity |-> severity]

(* alert.labels.alertname ?? alert.labels.alert_type ?? "default" *)
getAlertTypeKey(alert) ==
  IF alert.alertname # Undef THEN alert.alertname
  ELSE IF alert.alert_type # Undef THEN alert.alert_type
  ELSE "default"

(* const ruleName = alert.labels.alertname ?? "default" *)
RuleNameOf(alert) ==
  IF alert.alertname # Undef THEN alert.alertname ELSE "default"

normalizedToApiPayload(alert, config) ==
  [alertId |-> "fp1", ruleName |-> RuleNameOf(alert), status |-> alert.status,
   severity |-> alert.severity, resolvedAt |-> NoNum,
   channelId |-> config.channelId]

(* The alert lists of the webhook payloads, every alert with its alertname *)
Batches ==
  { b \in UNION { [1..n -> { SingleAlert(p.ruleName, Undef, p.status, p.severity) :
                               p \in Payloads }] : n \in 1..MaxBatchLen } : TRUE }

(* Webhook payloads of one alert that carries alertname, alert_type, both or
   neither *)
LabelBatches ==
  { <<SingleAlert(an, at, st, "critical")>> :
      an \in {Undef, "HighCPU"}, at \in {Undef, "HighCPU"}, st \in {"firing", "resolved"} }

(* POST /alerts: void processAlerts(body); the payload parses and the loop over
   payload.alerts starts.  batch holds the alerts not yet finished, the one
   being processed first *)
processAlerts(b) ==
  /\ batch = << >>
  /\ task[1].pc = "idle"
  /\ nAlerts < MaxBatchAlerts
  /\ batch' = b
  /\ UNCHANGED <<dedupExp, stored, chatVars, metrics, audit, task, timerVars,
                 nAlerts, nClicks, ackLive, queue, configVars>>

(* Loop body for an alert whose type has no channel: continue *)
processAlertsSkip ==
  /\ batch # << >>
  /\ task[1].pc = "idle"
  /\ getAlertsConfig(getAlertTypeKey(Head(batch))).channelId = Undef
  /\ batch' = Tail(batch)
  /\ UNCHANGED <<dedupExp, stored, chatVars, metrics, audit, task, timerVars,
                 nAlerts, nClicks, ackLive, queue, configVars, response>>

(* Loop body: await processOneAlertPayload(apiPayload, log) *)
processAlertsCall ==
  /\ batch # << >>
  /\ task[1].pc = "idle"
  /\ getAlertsConfig(getAlertTypeKey(Head(batch))).channelId # Undef
  /\ processOneAlertPayload(1, normalizedToApiPayload(Head(batch),
                                 getAlertsConfig(getAlertTypeKey(Head(batch)))))
  /\ UNCHANGED <<feedVars, configVars, response>>

(* The awaited call resolved: next iteration *)
processAlertsContinue ==
  /\ batch # << >>
  /\ task[1].pc = "done" /\ task[1].outcome # "threw"
  /\ batch' = Tail(batch)
  /\ task' = [task EXCEPT ![1] = IdleTask]
  /\ UNCHANGED <<dedupExp, stored, chatVars, metrics, audit, timerVars,
                 nAlerts, nClicks, ackLive, queue, configVars, response>>

(* The awaited call rejected: the loop has no try/catch, processAlerts rejects
   and the rest of the batch is never looked at *)
processAlertsRejects ==
  /\ batch # << >>
  /\ task[1].pc = "done" /\ task[1].outcome = "threw"
  /\ batch' = << >>
  /\ task' = [task EXCEPT ![1] = IdleTask]
  /\ UNCHANGED <<dedupExp, stored, chatVars, metrics, audit, timerVars,
                 nAlerts, nClicks, ackLive, queue, configVars, response>>

----------------------------------------------------------------------------
(* SNS adapter: snsEnvelopeToAlertPayload *)

MaxQueueMessages == 2
MaxDeliveries == 2

DEFAULT_EVENT_NAME == "sns"

(* envelope.MessageId: SNS gives every published notification its own id *)
MessageIds == <<"m1", "m2", "m3", "m4">>

Subjects == {"HighCPU", " HighCPU ", "High CPU", ""}

AlarmNames == {"cpu-alarm", Undef}

NewStateValues == {"ALARM", "OK"}

(* s.trim() *)
Trim(s) == IF s = " HighCPU " THEN "HighCPU" ELSE s

(* .replace(/\s+/g, "_") on a trimmed string *)
Underscored(s) == IF s = "High CPU" THEN "High_CPU" ELSE s

normalizeEventName(s) ==
  IF Trim(s) = "" THEN DEFAULT_EVENT_NAME ELSE Underscored(Trim(s))

(* Subject first; the envelopes carry no event_type / rule_name attribute and a
   CloudWatch alarm body has no detail-type, source or eventName *)
deriveEventName(envelope) ==
  IF Trim(envelope.Subject) # "" THEN normalizeEventName(envelope.Subject)
  ELSE DEFAULT_EVENT_NAME

(* typeof o.AlarmName === "string" ? o.AlarmName : undefined *)
parseResource(envelope) == envelope.AlarmName

(* No severity attribute or field: "warning" *)
parseSeverity(envelope) == "warning"

(* NewStateValue === "OK" is resolved at envelope.Timestamp, anything else firing *)
parseResolvedState(envelope) ==
  IF envelope.NewStateValue = "OK"
    THEN [status |-> "resolved", resolvedAt |-> envelope.Timestamp]
    ELSE [status |-> "firing", resolvedAt |-> NoNum]

(* envelope.MessageId + (resource ? ":" + resource.slice(0, 64) : ""), as the
   pair of its parts (the alarm names are shorter than 64 characters) *)
SnsAlertId(envelope) ==
  IF parseResource(envelope) # Undef
    THEN <<envelope.MessageId, parseResource(envelope)>>
    ELSE <<envelope.MessageId>>

(* null when the event name has no channel *)
snsEnvelopeToAlertPayload(envelope) ==
  LET eventName == deriveEventName(envelope)
      config == getAlertsConfig(eventName)
      st == parseResolvedState(envelope)
  IN IF config.channelId = Undef THEN NoPayload
     ELSE [alertId |-> SnsAlertId(envelope),
           resource |-> parseResource(envelope),
           ruleName |-> eventName,
           status |-> st.status,
           severity |-> parseSeverity(envelope),
           resolvedAt |-> st.resolvedAt,
           channelId |-> config.channelId]

----------------------------------------------------------------------------
(* SQS poller: pollOnce, processOneMessage *)

NoEnvelope ==
  [MessageId |-> Undef, Subject |-> "", AlarmName |-> Undef,
   NewStateValue |-> "", Timestamp |-> NoNum]

(* A message of the queue.  parses: parseSqsSnsBody returns an envelope.
   dedupExp and stored keep the Redis keys of the message's alertId while
   another message is being processed (every message has its own alertId) *)
SqsMessage(parses, envelope) ==
  [parses |-> parses, envelope |-> envelope, status |-> "visible",
   receives |-> 0, result |-> "none", payload |-> NoPayload,
   focus |-> FALSE, dedupExp |-> 0, stored |-> << >>, scanned |-> "none",
   clicked |-> "none"]

(* The topic delivers a CloudWatch alarm notification into the queue *)
snsPublish(subject, alarm, value) ==
  /\ Len(queue) < MaxQueueMessages
  /\ queue' = Append(queue,
       SqsMessage(TRUE, [MessageId |-> MessageIds[Len(queue) + 1],
                         Subject |-> subject, AlarmName |-> alarm,
                         NewStateValue |-> value, Timestamp |-> now]))
  /\ UNCHANGED <<dedupExp, stored, chatVars, metrics, audit, task, timerVars,
                 nAlerts, nClicks, ackLive, batch, configVars, response>>

(* Something that is not an SNS notification arrives in the queue *)
sqsGarbage ==
  /\ Len(queue) < MaxQueueMessages
  /\ queue' = Append(queue, SqsMessage(FALSE, NoEnvelope))
  /\ UNCHANGED <<dedupExp, stored, chatVars, metrics, audit, task, timerVars,
                 nAlerts, nClicks, ackLive, batch, configVars, response>>

Pending == { i \in DOMAIN queue : queue[i].status \in {"received", "current", "processing"} }

(* ReceiveMessage: every visible message is handed to the poller and hidden
   for the visibility timeout *)
pollOnce ==
  /\ Pending = {}
  /\ task[1].pc = "idle"
  /\ \E i \in DOMAIN queue : queue[i].status = "visible"
  /\ queue' = [i \in DOMAIN queue |->
                 IF queue[i].status = "visible"
                   THEN [queue[i] EXCEPT !.status = "received", !.receives = @ + 1]
                   ELSE queue[i]]
  /\ UNCHANGED <<dedupExp, stored, chatVars, metrics, audit, task, timerVars,
                 nAlerts, nClicks, ackLive, batch, configVars, response>>

(* for (const message of messages): the loop reaches message i.  dedupExp and
   stored now show the Redis keys of this message's alertId; the keys of the
   message shown before are kept with that message *)
sqsNextMessage(i) ==
  /\ queue[i].status = "received"
  /\ \A j \in Pending : j >= i
  /\ task[1].pc = "idle"
  /\ queue' = [j \in DOMAIN queue |->
                 IF j = i THEN [queue[j] EXCEPT !.status = "current", !.focus = TRUE]
                 ELSE IF queue[j].focus
                   THEN [queue[j] EXCEPT !.focus = FALSE, !.dedupExp = dedupExp,
                                         !.stored = stored]
                 ELSE queue[j]]
  /\ dedupExp' = IF queue[i].focus THEN dedupExp ELSE queue[i].dedupExp
  /\ stored' = IF queue[i].focus THEN stored ELSE queue[i].stored
  /\ UNCHANGED <<chatVars, metrics, audit, task, timerVars, nAlerts, nClicks,
                 ackLive, batch, configVars, response>>

(* processOneMessage, parseSqsSnsBody returns null: return without deleting *)
processOneMessageParseFailed(i) ==
  /\ queue[i].status = "current"
  /\ ~queue[i].parses
  /\ queue' = [queue EXCEPT ![i].status = "invisible", ![i].result = "parse_failed"]
  /\ UNCHANGED <<dedupExp, stored, chatVars, metrics, audit, task, timerVars,
                 nAlerts, nClicks, ackLive, batch, configVars, response>>

(* processOneMessage, processSnsNotification finds no config and returns:
   DeleteMessage *)
processOneMessageNoConfig(i) ==
  /\ queue[i].status = "current"
  /\ queue[i].parses
  /\ snsEnvelopeToAlertPayload(queue[i].envelope) = NoPayload
  /\ queue' = [queue EXCEPT ![i].status = "deleted", ![i].result = "no_config"]
  /\ UNCHANGED <<dedupExp, stored, chatVars, metrics, audit, task, timerVars,
                 nAlerts, nClicks, ackLive, batch, configVars, response>>

(* processOneMessage, await processSnsNotification -> await processOneAlertPayload *)
processOneMessage(i) ==
  /\ queue[i].status = "current"
  /\ queue[i].parses
  /\ task[1].pc = "idle"
  /\ LET payload == snsEnvelopeToAlertPayload(queue[i].envelope)
     IN /\ payload # NoPayload
        /\ processOneAlertPayload(1, payload)
        /\ queue' = [queue EXCEPT ![i].status = "processing", ![i].payload = payload]
  /\ UNCHANGED <<batch, configVars, response>>

(* processSnsNotification resolved: DeleteMessage with the receipt handle *)
sqsDelete(i) ==
  /\ queue[i].status = "processing"
  /\ task[1].pc = "done" /\ task[1].outcome # "threw"
  /\ queue' = [queue EXCEPT ![i].status = "deleted", ![i].result = task[1].outcome]
  /\ task' = [task EXCEPT ![1] = IdleTask]
  /\ UNCHANGED <<dedupExp, stored, chatVars, metrics, audit, timerVars,
                 nAlerts, nClicks, ackLive, batch, configVars, response>>

(* Faulty variant of Swallowed: pollOnce has no try/catch, the rejection
   leaves the for loop and the messages still to come are not processed *)
SwallowedNowhere(i) ==
  [j \in DOMAIN queue |->
     IF j = i THEN [queue[j] EXCEPT !.status = "invisible", !.result = "threw"]
     ELSE IF queue[j].status = "received" THEN [queue[j] EXCEPT !.status = "invisible"]
     ELSE queue[j]]

(* try { await processOneMessage(...) } catch { }: the queue after the
   rejection of message i was swallowed; the message is not deleted *)
Swallowed(i) ==
  [queue EXCEPT ![i].status = "invisible", ![i].result = "threw"]

(* processSnsNotification rejected: logged, rethrown, swallowed by pollOnce *)
processOneMessageRejects(i) ==
  /\ queue[i].status = "processing"
  /\ task[1].pc = "done" /\ task[1].outcome = "threw"
  /\ queue' = Swallowed(i)
  /\ task' = [task EXCEPT ![1] = IdleTask]
  /\ UNCHANGED <<dedupExp, stored, chatVars, metrics, audit, timerVars,
                 nAlerts, nClicks, ackLive, batch, configVars, response>>

(* The visibility timeout of a message that was not deleted runs out.  The
   timeout (60 s) is shorter than every window of the pipeline, so the clock
   of the model stays where it is for the few deliveries considered *)
visibilityTimeout(i) ==
  /\ queue[i].status = "invisible"
  /\ queue[i].receives < MaxDeliveries
  /\ queue' = [queue EXCEPT ![i].status = "visible"]
  /\ UNCHANGED <<dedupExp, stored, chatVars, metrics, audit, task, timerVars,
                 nAlerts, nClicks, ackLive, batch, configVars, response>>

----------------------------------------------------------------------------
(* Incident keys of queue alerts: alertKey and the keys the loops enumerate.
   A string is the list of its parts between colons, so that joining with ":"
   is concatenation and split(":") gives the list itself *)

(* A resource name without a colon, as a string *)
Parts(s) == <<s>>

(* `alert:${alertId}:${resource ?? "default"}` *)
alertKey(alertId, resource) ==
  <<"alert">> \o alertId \o (IF resource = Undef THEN <<"default">> ELSE Parts(resource))

(* const parts = key.split(":"); alertId = parts[1] *)
ScannedAlertId(key) == <<key[2]>>

(* resource = parts[2] === "default" ? undefined : parts[2] *)
ScannedResource(key) == IF key[3] = "default" THEN Undef ELSE key[3]

(* The record of queue message i is in the incident store *)
HasRecord(i) ==
  IF queue[i].focus THEN stored # << >> ELSE queue[i].stored # << >>

(* The key under which sendOrUpdateAlert persisted the record of message i *)
RecordKey(i) == alertKey(queue[i].payload.alertId, queue[i].payload.resource)

(* One iteration of the escalation loop or of the reconciler over the
   enumerated key of message i, up to `if (!stored) continue`: the key is
   split, the record is read under the derived alertId and resource *)
scanKey(i) ==
  /\ task[1].pc = "idle"
  /\ HasRecord(i)
  /\ queue[i].scanned = "none"
  /\ LET key == RecordKey(i)
         derived == alertKey(ScannedAlertId(key), ScannedResource(key))
         found == \E j \in DOMAIN queue : HasRecord(j) /\ RecordKey(j) = derived
     IN queue' = [queue EXCEPT ![i].scanned =
                    IF Len(key) < 3 THEN "skipped"
                    ELSE IF found THEN "found" ELSE "not_found"]
  /\ UNCHANGED <<dedupExp, stored, chatVars, metrics, audit, task, timerVars,
                 nAlerts, nClicks, ackLive, batch, configVars, response>>

(* `${ACK_BUTTON_CUSTOM_ID}:${payload.alertId}:${payload.resource ?? ""}`,
   and the same with the two other prefixes *)
customId(prefix, alertId, resource) ==
  <<prefix>> \o alertId \o (IF resource = Undef THEN <<"">> ELSE Parts(resource))

(* const parts = customId.split(":"); alertId = parts[1] *)
ClickedAlertId(cid) == <<cid[2]>>

(* resource = parts[2] === "" ? undefined : parts[2] *)
ClickedResource(cid) == IF cid[3] = "" THEN Undef ELSE cid[3]

ButtonIds == {"alert_ack", "alert_troubleshoot", "alert_resolve"}

(* A user clicks a button of the message emitted for queue message i; the
   handler decodes the custom id and reads the record, up to
   `if (!stored)` *)
clickKey(i, prefix) ==
  /\ task[1].pc = "idle"
  /\ HasRecord(i)
  /\ queue[i].clicked = "none"
  /\ LET cid == customId(prefix, queue[i].payload.alertId, queue[i].payload.resource)
         derived == alertKey(ClickedAlertId(cid), ClickedResource(cid))
     IN queue' = [queue EXCEPT ![i].clicked =
                    IF derived = RecordKey(i) THEN "found" ELSE "not_found"]
  /\ UNCHANGED <<dedupExp, stored, chatVars, metrics, audit, task, timerVars,
                 nAlerts, nClicks, ackLive, batch, configVars, response>>

----------------------------------------------------------------------------
(* HTTP endpoints *)

MaxRequests == 2

(* process.env.AUTH_TOKEN *)
AUTH_TOKEN == "secret"

(* Values of the authorization header; Undef when the header is absent *)
AuthorizationHeaders == {Undef, "Bearer secret", "secret", "Bearer wrong"}

(* raw.startsWith("Bearer ") ? raw.slice(7).trim() : raw.trim() *)
getAuthToken(raw) ==
  IF raw = "Bearer secret" THEN "secret"
  ELSE IF raw = "Bearer wrong" THEN "wrong"
  ELSE raw

requireAuth(raw) ==
  IF AUTH_TOKEN = "" THEN TRUE ELSE getAuthToken(raw) = AUTH_TOKEN

(* reply.status(status).send(...) to the request on route with header raw;
   authorized records what requireAuth says of the header *)
Reply(route, raw, status) ==
  [n |-> response.n + 1, route |-> route, authorized |-> requireAuth(raw),
   status |-> status]

(* No handler is awaiting a database write of the HTTP layer *)
HttpIdle == task[2].pc = "idle"

(* GET /health *)
getHealth(raw) ==
  /\ response.n < MaxRequests
  /\ response' = Reply("GET /health", raw, 200)
  /\ UNCHANGED <<dedupExp, stored, chatVars, metrics, audit, task, timerVars,
                 nAlerts, nClicks, ackLive, feedVars, configVars>>

(* GET /metrics *)
getMetrics(raw) ==
  /\ response.n < MaxRequests
  /\ response' = Reply("GET /metrics", raw, 200)
  /\ UNCHANGED <<dedupExp, stored, chatVars, metrics, audit, task, timerVars,
                 nAlerts, nClicks, ackLive, feedVars, configVars>>

(* Bodies of POST /alerts: one firing alert of a rule, of a rule the start
   config does not list, or with no alertname label (rule "default") *)
HttpBatches ==
  { <<SingleAlert(rule, Undef, "firing", "critical")>> : rule \in {"HighCPU", "NoRule", Undef} }

(* POST /alerts *)
postAlerts(raw, b) ==
  /\ response.n < MaxRequests
  /\ IF ~requireAuth(raw)
       THEN /\ response' = Reply("POST /alerts", raw, 401)
            /\ UNCHANGED <<dedupExp, stored, chatVars, metrics, audit, task, timerVars,
                           nAlerts, nClicks, ackLive, feedVars, configVars>>
       ELSE /\ processAlerts(b)
            /\ response' = Reply("POST /alerts", raw, 200)

(* GET /reload and POST /reload: handleReload *)
handleReload(method, raw) ==
  /\ response.n < MaxRequests
  /\ IF ~requireAuth(raw)
       THEN /\ response' = Reply(method, raw, 401)
            /\ UNCHANGED cachedConfig
       ELSE /\ cachedConfig' = ReloadedCache(reloadAlertsConfigSafe)
            /\ response' = Reply(method, raw,
                                 IF reloadAlertsConfigSafe.ok THEN 200 ELSE 400)
  /\ UNCHANGED <<dedupExp, stored, chatVars, metrics, audit, task, timerVars,
                 nAlerts, nClicks, ackLive, feedVars, dbConfig, fileData, guides>>

(* GET /get-config *)
getConfig(raw) ==
  /\ response.n < MaxRequests
  /\ response' = Reply("GET /get-config", raw, IF requireAuth(raw) THEN 200 ELSE 401)
  /\ UNCHANGED <<dedupExp, stored, chatVars, metrics, audit, task, timerVars,
                 nAlerts, nClicks, ackLive, feedVars, configVars>>

(* POST /push-config up to the await of saveAlertsConfigToDbAndCache *)
pushConfig(raw, body) ==
  /\ response.n < MaxRequests
  /\ HttpIdle
  /\ IF ~requireAuth(raw)
       THEN /\ response' = Reply("POST /push-config", raw, 401)
            /\ UNCHANGED task
     ELSE IF ~validateAlertsConfig(body).ok
       THEN /\ response' = Reply("POST /push-config", raw, 400)
            /\ UNCHANGED task
     ELSE /\ task' = [task EXCEPT ![2] =
                        [IdleTask EXCEPT !.kind = "push", !.pc = "pushSave",
                                         !.user = raw, !.body = body,
                                         !.config = validateAlertsConfig(body).config]]
          /\ UNCHANGED response
  /\ UNCHANGED <<dedupExp, stored, chatVars, metrics, audit, timerVars,
                 nAlerts, nClicks, ackLive, feedVars, configVars>>

(* Faulty variant of saveAlertsConfigToDbAndCache: the cache is set before the
   database write is awaited *)
saveAlertsConfigCacheFirst(config, written) ==
  /\ dbConfig' = IF DatabaseConfigured /\ written THEN config ELSE dbConfig
  /\ cachedConfig' = config

(* saveAlertsConfigToDbAndCache: await setAlertsConfigInDb(config) when
   DATABASE_URL is set, then setAlertsConfigCache(config).  written: the
   database write resolved *)
saveAlertsConfigToDbAndCache(config, written) ==
  /\ dbConfig' = IF DatabaseConfigured /\ written THEN config ELSE dbConfig
  /\ cachedConfig' = IF DatabaseConfigured /\ ~written THEN cachedConfig ELSE config

(* POST /push-config from the database write to the reply *)
pushSave(written) ==
  /\ task[2].kind = "push" /\ task[2].pc = "pushSave"
  /\ DatabaseConfigured \/ written
  /\ saveAlertsConfigToDbAndCache(task[2].config, written)
  /\ response' = Reply("POST /push-config", task[2].user,
                       IF written THEN 200 ELSE 500)
  /\ task' = [task EXCEPT ![2] = IdleTask]
  /\ UNCHANGED <<dedupExp, stored, chatVars, metrics, audit, timerVars,
                 nAlerts, nClicks, ackLive, feedVars, fileData, guides>>

(* GET /troubleshooting-guide *)
getGuide(raw) ==
  /\ response.n < MaxRequests
  /\ response' = Reply("GET /troubleshooting-guide", raw,
                       IF requireAuth(raw) THEN 200 ELSE 401)
  /\ UNCHANGED <<dedupExp, stored, chatVars, metrics, audit, task, timerVars,
                 nAlerts, nClicks, ackLive, feedVars, configVars>>

(* POST /troubleshooting-guide; alertType is Undef when the body has none,
   written: setTroubleshootingGuide resolved *)
postGuide(raw, alertType, written) ==
  /\ response.n < MaxRequests
  /\ LET status == IF ~requireAuth(raw) THEN 401
                   ELSE IF ~DatabaseConfigured THEN 503
                   ELSE IF alertType = Undef THEN 400
                   ELSE IF written THEN 200 ELSE 500
     IN /\ response' = Reply("POST /troubleshooting-guide", raw, status)
        /\ guides' = IF status = 200 THEN guides \cup {alertType} ELSE guides
  /\ UNCHANGED <<dedupExp, stored, chatVars, metrics, audit, task, timerVars,
                 nAlerts, nClicks, ackLive, feedVars, cachedConfig, dbConfig, fileData>>

(* Somebody edits, breaks or removes the config file *)
editFile(f) ==
  /\ f # fileData
  /\ fileData' = f
  /\ UNCHANGED <<dedupExp, stored, chatVars, metrics, audit, task, timerVars,
                 nAlerts, nClicks, ackLive, feedVars, cachedConfig, dbConfig, guides,
                 response>>

----------------------------------------------------------------------------
(* Specifications *)

AlertStep(t) ==
  \/ \E p \in Payloads : nAlerts < MaxAlerts /\ processOneAlertPayload(t, p) /\ UNCHANGED <<feedVars, configVars, response>>
  \/ clearDedup(t)
  \/ isDuplicateGet(t)
  \/ isDuplicateSetex(t)
  \/ procLoad(t)
  \/ sendGet(t)
  \/ sendEdit(t)
  \/ sendRepeat(t)
  \/ sendWriteUpdate(t)
  \/ sendCreate(t)
  \/ sendStartThread(t)
  \/ sendWriteCreate(t)
  \/ insertAlertEvent(t)

ButtonStep(t) ==
  \/ \E u \in Users, m \in messages :
       nClicks < MaxUserActions /\ EventInstant /\ interactionAck(t, u, m)
  \/ ackSetDedupTtl(t)
  \/ ackWrite(t)
  \/ ackFinish(t)
  \/ \E u \in Users, m \in messages :
       nClicks < MaxUserActions /\ EventInstant /\ interactionResolve(t, u, m)
  \/ resolveClearDedup(t)
  \/ resolveWrite(t)
  \/ resolveFinish(t)

LoopStep(t) ==
  \/ escalationTick(t)
  \/ escRead(t)
  \/ escSend(t)
  \/ escWrite(t)
  \/ reconcilerRun(t)
  \/ reconRead(t)
  \/ reconVerify(t)
  \/ reconDelete(t)
  \/ reconClearThread(t)

UserStep ==
  \/ \E m \in messages : nClicks < MaxUserActions /\ userDeletesMessage(m)
  \/ \E th \in threads : nClicks < MaxUserActions /\ userDeletesThread(th)

(* The loops when the chat API may answer the reconciler with any channel and
   any error *)
LoopStepChat(t) ==
  \/ escalationTick(t)
  \/ escRead(t)
  \/ escSend(t)
  \/ escWrite(t)
  \/ reconcilerRun(t)
  \/ reconRead(t)
  \/ \E ch \in ChannelOutcomes, err \in FetchErrors : reconVerifyChat(t, ch, err)
  \/ reconDelete(t)
  \/ reconClearThread(t)

(* One handler at a time, with the clock: the sequential behaviour *)
Next ==
  \/ AlertStep(1)
  \/ ButtonStep(1)
  \/ LoopStep(1)
  \/ UserStep
  \/ Tick

Spec == Init /\ [][Next]_vars

(* The sequential behaviour with a chat API that can fail the reconciler *)
NextRecon ==
  \/ AlertStep(1)
  \/ ButtonStep(1)
  \/ LoopStepChat(1)
  \/ UserStep
  \/ Tick

SpecRecon == Init /\ [][NextRecon]_vars

(* Two handlers interleaving at their awaits, within one clock instant *)
NextConc ==
  \/ \E t \in Slots : AlertStep(t)
  \/ \E t \in Slots : ButtonStep(t)

SpecConc == Init /\ [][NextConc]_vars

(* Firing alerts only, two handlers interleaving: the dedup key is never
   cleared and never expires, so every isDuplicate call after the first
   insertion has to answer duplicate *)
NextDedup ==
  \E t \in Slots :
    \/ \E sev \in {"critical", "warning"} :
         /\ nAlerts < MaxAlerts
         /\ processOneAlertPayload(t, Payload("HighCPU", "firing", sev))
         /\ UNCHANGED <<feedVars, configVars, response>>
    \/ isDuplicateGet(t)
    \/ isDuplicateSetex(t)
    \/ procLoad(t)
    \/ sendGet(t)
    \/ sendEdit(t)
    \/ sendRepeat(t)
    \/ sendWriteUpdate(t)
    \/ sendCreate(t)
    \/ sendStartThread(t)
    \/ sendWriteCreate(t)
    \/ insertAlertEvent(t)

SpecDedup == Init /\ [][NextDedup]_vars

(* Non-critical alerts over hours, one handler at a time and nobody deleting
   messages or threads: the escalation loop skips every record, the reconciler
   finds nothing to repair, and the expiry branches of the processor are reached *)
PayloadsLong ==
  { Payload("HighCPU", "firing", "warning"),
    Payload("HighCPU", "resolved", "warning") }

NextLong ==
  \/ \E p \in PayloadsLong :
       nAlerts < LongMaxAlerts /\ processOneAlertPayload(1, p) /\ UNCHANGED <<feedVars, configVars, response>>
  \/ clearDedup(1)
  \/ isDuplicateGet(1)
  \/ isDuplicateSetex(1)
  \/ procLoad(1)
  \/ procDeleteResolved(1)
  \/ procDeleteAck(1)
  \/ sendGet(1)
  \/ sendEdit(1)
  \/ sendRepeat(1)
  \/ sendWriteUpdate(1)
  \/ sendCreate(1)
  \/ sendStartThread(1)
  \/ sendWriteCreate(1)
  \/ insertAlertEvent(1)
  \/ \E u \in Users, m \in messages :
       nClicks < LongMaxUserActions /\ EventInstant /\ interactionAck(1, u, m)
  \/ ackSetDedupTtl(1)
  \/ ackWrite(1)
  \/ ackFinish(1)
  \/ \E u \in Users, m \in messages :
       nClicks < LongMaxUserActions /\ EventInstant /\ interactionResolve(1, u, m)
  \/ resolveClearDedup(1)
  \/ resolveWrite(1)
  \/ resolveFinish(1)
  \/ escalationTick(1)
  \/ escRead(1)
  \/ Elapse

SpecLong == Init /\ [][NextLong]_vars

(* Webhook batches, one at a time, with rejecting Redis calls and a rejecting
   audit insert; the clock stands still *)
NextBatch ==
  \/ \E b \in Batches : processAlerts(b) /\ UNCHANGED response
  \/ processAlertsSkip
  \/ processAlertsCall
  \/ processAlertsContinue
  \/ processAlertsRejects
  \/ clearDedup(1)
  \/ isDuplicateGet(1)
  \/ isDuplicateSetex(1)
  \/ procLoad(1)
  \/ sendGet(1)
  \/ sendEdit(1)
  \/ sendRepeat(1)
  \/ sendWriteUpdate(1)
  \/ sendCreate(1)
  \/ sendStartThread(1)
  \/ sendWriteCreate(1)
  \/ insertAlertEvent(1)
  \/ insertAlertEventFails(1)
  \/ redisRejects(1)
  \/ sendWriteUpdateRejects(1)

SpecBatch == Init /\ [][NextBatch]_vars

(* Webhook batches whose alerts carry alertname, alert_type, both or neither *)
NextWebhook ==
  \/ \E b \in LabelBatches : processAlerts(b) /\ UNCHANGED response
  \/ processAlertsSkip
  \/ processAlertsCall
  \/ processAlertsContinue
  \/ processAlertsRejects
  \/ clearDedup(1)
  \/ isDuplicateGet(1)
  \/ isDuplicateSetex(1)
  \/ procLoad(1)
  \/ sendGet(1)
  \/ sendEdit(1)
  \/ sendRepeat(1)
  \/ sendWriteUpdate(1)
  \/ sendCreate(1)
  \/ sendStartThread(1)
  \/ sendWriteCreate(1)
  \/ insertAlertEvent(1)
  \/ insertAlertEventFails(1)
  \/ redisRejects(1)
  \/ sendWriteUpdateRejects(1)

SpecWebhook == Init /\ [][NextWebhook]_vars

(* The queue poller with the SNS adapter.  A message is delivered again only
   after a parse failure or a rejected Redis call, both before any record is
   written, so the emit never finds a record and the update path of
   sendOrUpdateAlert is not part of this specification *)
NextQueue ==
  \/ \E subject \in Subjects, alarm \in AlarmNames, value \in NewStateValues :
       snsPublish(subject, alarm, value)
  \/ sqsGarbage
  \/ pollOnce
  \/ \E i \in DOMAIN queue :
       \/ sqsNextMessage(i)
       \/ processOneMessageParseFailed(i)
       \/ processOneMessageNoConfig(i)
       \/ processOneMessage(i)
       \/ sqsDelete(i)
       \/ processOneMessageRejects(i)
       \/ visibilityTimeout(i)
  \/ clearDedup(1)
  \/ isDuplicateGet(1)
  \/ isDuplicateSetex(1)
  \/ procLoad(1)
  \/ sendGet(1)
  \/ sendCreate(1)
  \/ sendStartThread(1)
  \/ sendWriteCreate(1)
  \/ insertAlertEvent(1)
  \/ redisRejects(1)

SpecQueue == Init /\ [][NextQueue]_vars

(* A step of the poll loop: run() calls pollOnce again from finally, and the
   for loop of pollOnce goes on after every message *)
PollerStep ==
  \/ pollOnce
  \/ \E i \in DOMAIN queue :
       \/ sqsNextMessage(i)
       \/ processOneMessageParseFailed(i)
       \/ processOneMessageNoConfig(i)
       \/ processOneMessage(i)
       \/ sqsDelete(i)
       \/ processOneMessageRejects(i)

(* An await of the pipeline of a firing alert settles: it resolves or rejects *)
AwaitSettles ==
  \/ isDuplicateGet(1)
  \/ isDuplicateSetex(1)
  \/ procLoad(1)
  \/ sendGet(1)
  \/ sendCreate(1)
  \/ sendStartThread(1)
  \/ sendWriteCreate(1)
  \/ insertAlertEvent(1)
  \/ redisRejects(1)

(* The queue poller when every await settles and the event loop runs the
   callbacks it has scheduled; arrivals and visibility timeouts are up to the
   queue.  The notifications are alarms of HighCPU and of a rule without
   config, so every alert is a firing one *)
NextPoll ==
  \/ snsPublish("HighCPU", Undef, "ALARM")
  \/ snsPublish("High CPU", Undef, "ALARM")
  \/ sqsGarbage
  \/ \E i \in DOMAIN queue : visibilityTimeout(i)
  \/ PollerStep
  \/ AwaitSettles

SpecPoll ==
  Init /\ [][NextPoll]_vars /\ WF_vars(PollerStep) /\ WF_vars(AwaitSettles)

(* The queue poller, and the background loops enumerating the keys of the
   records it left in the incident store *)
NextKeys ==
  \/ NextQueue
  \/ \E i \in DOMAIN queue : scanKey(i)
  \/ \E i \in DOMAIN queue, prefix \in ButtonIds : clickKey(i, prefix)

SpecKeys == Init /\ [][NextKeys]_vars

(* The HTTP endpoints with a bearer token configured.  Alerts arrive through
   POST /alerts; requests and file edits come while no batch is in progress;
   the clock stands still, so the second alert of a rule is a duplicate and no
   emit finds a record to update *)
HttpStep ==
  \/ \E raw \in AuthorizationHeaders : getHealth(raw)
  \/ \E raw \in AuthorizationHeaders : getMetrics(raw)
  \/ \E raw \in AuthorizationHeaders, b \in HttpBatches : postAlerts(raw, b)
  \/ \E raw \in AuthorizationHeaders, method \in {"GET /reload", "POST /reload"} :
       handleReload(method, raw)
  \/ \E raw \in AuthorizationHeaders : getConfig(raw)
  \/ \E raw \in AuthorizationHeaders, body \in Bodies : pushConfig(raw, body)
  \/ \E written \in BOOLEAN : pushSave(written)
  \/ \E raw \in AuthorizationHeaders : getGuide(raw)
  \/ \E raw \in AuthorizationHeaders, alertType \in {"HighCPU", Undef},
        written \in BOOLEAN : postGuide(raw, alertType, written)

NextHttp ==
  \/ batch = << >> /\ HttpStep
  \/ \E f \in Files : batch = << >> /\ editFile(f)
  \/ processAlertsSkip
  \/ processAlertsCall
  \/ processAlertsContinue
  \/ isDuplicateGet(1)
  \/ isDuplicateSetex(1)
  \/ procLoad(1)
  \/ sendGet(1)
  \/ sendCreate(1)
  \/ sendStartThread(1)
  \/ sendWriteCreate(1)
  \/ insertAlertEvent(1)

SpecHttp == Init /\ [][NextHttp]_vars

(* The background loops in one slot and the handlers of a critical alert and of
   the buttons in the other, interleaving at their awaits.  A click comes at
   any instant, also between the read and the write of a scan; the message
   and the thread of the incident can be deleted *)
ScanMaxUserActions == 2

NextScan ==
  \/ nAlerts < 1 /\ processOneAlertPayload(1, Payload("HighCPU", "firing", "critical"))
       /\ UNCHANGED <<feedVars, configVars, response>>
  \/ isDuplicateGet(1)
  \/ isDuplicateSetex(1)
  \/ procLoad(1)
  \/ sendGet(1)
  \/ sendCreate(1)
  \/ sendStartThread(1)
  \/ sendWriteCreate(1)
  \/ insertAlertEvent(1)
  \/ \E u \in Users, m \in messages :
       nClicks < ScanMaxUserActions /\ interactionAck(1, u, m)
  \/ ackSetDedupTtl(1)
  \/ ackWrite(1)
  \/ ackFinish(1)
  \/ \E u \in Users, m \in messages :
       nClicks < ScanMaxUserActions /\ interactionResolve(1, u, m)
  \/ resolveClearDedup(1)
  \/ resolveWrite(1)
  \/ resolveFinish(1)
  \/ \E m \in messages : nClicks < ScanMaxUserActions /\ userDeletesMessage(m)
  \/ \E th \in threads : nClicks < ScanMaxUserActions /\ userDeletesThread(th)
  \/ LoopStep(2)
  \/ Tick

SpecScan == Init /\ [][NextScan]_vars

(* One firing critical alert and the escalation callbacks of the interval
   timer, each callback suspended at its awaits while the timer goes on *)
NextTicks ==
  \/ nAlerts < 1 /\ processOneAlertPayload(1, Payload("HighCPU", "firing", "critical"))
       /\ UNCHANGED <<feedVars, configVars, response>>
  \/ isDuplicateGet(1)
  \/ isDuplicateSetex(1)
  \/ procLoad(1)
  \/ sendGet(1)
  \/ sendCreate(1)
  \/ sendStartThread(1)
  \/ sendWriteCreate(1)
  \/ insertAlertEvent(1)
  \/ \E t \in Slots :
       \/ escalationTick(t)
       \/ escRead(t)
       \/ escSend(t)
       \/ escWrite(t)
  \/ intervalElapses

SpecTicks == Init /\ [][NextTicks]_vars


----------------------------------------------------------------------------
(* Properties *)

HasConfig(p) == getAlertsConfig(p.ruleName).channelId # Undef

IsAlert(t, status) ==
  task[t].kind = "alert" /\ task[t].payload.status = status /\ HasConfig(task[t].payload)

(* The fingerprint was in the dedup set when the alert of task t was submitted *)
WasInDedup(t) == task[t].pre.dedupExp > now

(* C1: a resolved alert whose rule has a channelId never takes the
   dedup-suppressed path, whatever the dedup set contains: it never runs the
   dedup test, its clearDedup has completed before its chat emit starts, and
   the dedup-suppressed counter stays as it was when the alert was submitted *)
C1_ResolvedNeverSuppressed ==
  \A t \in Slots :
    IsAlert(t, "resolved") =>
      /\ task[t].pc \notin {"isDuplicateGet", "isDuplicateSetex"}
      /\ task[t].outcome # "dedup"
      /\ task[t].pc # "clearDedup" => task[t].cleared
      /\ task[t].emits > 0 => task[t].cleared
      /\ metrics.dedupSuppressed = task[t].pre.dedupSuppressed

C1_Witness ==
  \E t \in Slots :
    /\ IsAlert(t, "resolved")
    /\ WasInDedup(t)
    /\ task[t].pc = "done" /\ task[t].outcome = "sent"
    /\ task[t].cleared /\ task[t].emits = 1
    /\ dedupExp = 0

(* isDuplicate answered "new" to the alert of task t *)
GotNew(t) ==
  /\ IsAlert(t, "firing")
  /\ \/ task[t].pc \notin {"isDuplicateGet", "isDuplicateSetex", "done"}
     \/ task[t].pc = "done" /\ task[t].outcome \in {"sent", "failed"}

(* C2: the dedup test-and-set is atomic: among the isDuplicate calls for one
   fingerprint that is never cleared and does not expire, at most one is
   answered "new" *)
C2_AtomicTestAndSet == Cardinality({ t \in Slots : GotNew(t) }) <= 1

(* Task t is an emit that found no incident record and created a message *)
CreatedFromNothing(t) ==
  /\ task[t].kind = "alert"
  /\ task[t].emits > 0
  /\ ~Exists(task[t].sstored)
  /\ task[t].msg # NoNum

(* C3: concurrent sendOrUpdateAlert calls for the incident key that start
   with no incident record create one chat message between them, and the
   record points at it *)
C3_OneMessagePerKey ==
  /\ Cardinality({ t \in Slots : CreatedFromNothing(t) }) <= 1
  /\ \A t \in Slots :
       CreatedFromNothing(t) /\ task[t].pc = "done" /\ task[t].outcome = "sent"
         => Exists(stored) /\ stored[1].messageId = task[t].msg

(* Task t is between sendOrUpdateAlert's read of the record and its write *)
InEmit(t) ==
  /\ task[t].kind = "alert"
  /\ task[t].pc \in {"edit", "repeat", "writeUpdate", "send", "startThread", "writeCreate"}

(* C4: emits are serialized per incident key: never are two sendOrUpdateAlert
   executions both between their read of the record and their write of it *)
C4_EmitsSerialized == Cardinality({ t \in Slots : InEmit(t) }) <= 1

(* The handler of task t returns in this step *)
Completes(t) == task[t].kind = "alert" /\ task[t].pc # "done" /\ task'[t].pc = "done"

(* C5: a firing alert with a configured rule whose fingerprint is not in the
   dedup set invokes the chat emit exactly once; when the emit succeeds, on
   return the dedup set holds the fingerprint, the record is firing with the
   returned messageId, and received and sent have grown by one *)
C5_FirstFiringEmitsOnce ==
  [][ \A t \in Slots :
        IsAlert(t, "firing") /\ ~WasInDedup(t) =>
          /\ task'[t].emits <= 1
          /\ Completes(t) => task'[t].emits = 1
          /\ Completes(t) /\ task'[t].outcome = "sent" =>
               /\ dedupExp' > now'
               /\ Exists(stored')
               /\ stored'[1].state = "firing"
               /\ stored'[1].messageId # NoNum
               /\ stored'[1].messageId = task'[t].msg
               /\ stored'[1].messageId \in 1..Len(buttons')
               /\ metrics'.received = task[t].pre.received + 1
               /\ metrics'.sent = task[t].pre.sent + 1 ]_vars

C5_Witness ==
  \E t \in Slots :
    /\ IsAlert(t, "firing") /\ ~WasInDedup(t)
    /\ ~Exists(task[t].pre.stored)
    /\ task[t].pc = "done" /\ task[t].outcome = "sent"
    /\ task[t].emits = 1
    /\ DedupExists
    /\ Exists(stored) /\ stored[1].state = "firing"

(* C6: a firing alert submitted while its fingerprint is in the dedup set is
   suppressed: on return no emit was made, the incident record is as it was, the chat
   messages gain nothing, the audit log is as it was, dedup-suppressed has grown by
   one and the dedup entry keeps the expiry of its first sighting *)
C6_DuplicateSuppressed ==
  [][ \A t \in Slots :
        IsAlert(t, "firing") /\ WasInDedup(t) /\ Completes(t) =>
          /\ task'[t].outcome = "dedup"
          /\ task'[t].emits = 0
          /\ stored' = task[t].pre.stored
          /\ messages' \subseteq task[t].pre.messages
          /\ audit' = task[t].pre.audit
          /\ metrics'.sent = task[t].pre.sent
          /\ metrics'.dedupSuppressed = task[t].pre.dedupSuppressed + 1
          /\ dedupExp' = task[t].pre.dedupExp ]_vars

(* The duplicate arrives later than the first sighting, so a refreshed TTL
   would differ from the one kept *)
C6_Witness ==
  \E t \in Slots :
    /\ IsAlert(t, "firing") /\ WasInDedup(t)
    /\ task[t].pc = "done" /\ task[t].outcome = "dedup"
    /\ now > 0
    /\ dedupExp # DedupSetex(TtlSec(SuppressWindowMs(getAlertsConfig(task[t].payload.ruleName))))
    /\ Exists(stored)

(* C7: the persisted state of the incident record changes only
   firing -> acknowledged, firing -> resolved, acknowledged -> resolved *)
C7_StatePath ==
  [][ Exists(stored) /\ Exists(stored') /\ stored'[1].state # stored[1].state
        => <<stored[1].state, stored'[1].state>> \in
             { <<"firing", "acknowledged">>, <<"firing", "resolved">>,
               <<"acknowledged", "resolved">> } ]_vars

IsEscalationPost(ps) == Len(ps) > 0 /\ ps[Len(ps)].kind = "escalation"

(* C8: from the moment Acknowledge has persisted state acknowledged until the
   incident is resolved or its record deleted, the escalation loop posts no
   mention *)
C8_AckStopsEscalation ==
  [][ ackLive => ~(Len(posts') > Len(posts) /\ IsEscalationPost(posts')) ]_vars

EscalationPosts == { i \in 1..Len(posts) : posts[i].kind = "escalation" }

Min(a, b) == IF a <= b THEN a ELSE b

(* No mention is overdue: the level reached is the number of thresholds passed *)
EscalationCaughtUp ==
  Exists(stored) /\ stored[1].state = "firing" /\ stored[1].severity = "critical"
    => Level(stored[1]) >=
         Min(Len(getAlertsConfig(stored[1].ruleName).mentions),
             (now - stored[1].updatedAt) \div MENTION_ESCALATION_STEP_MS)

(* With no user action: u_k is mentioned at T0 + k * 5 min, T0 the updatedAt
   of the emission, and after each completed tick no mention is overdue *)
C9_Timing ==
  nClicks = 0 =>
    /\ \A i \in EscalationPosts :
         /\ posts[i].at = posts[i].base + posts[i].level * MENTION_ESCALATION_STEP_MS
         /\ posts[i].user = AlertsConfig.HighCPU.mentions[posts[i].level]
    /\ InFlight = {} /\ ~escDue => EscalationCaughtUp

(* The escalation write of task t happens in this step *)
EscalationWrites(t) ==
  task[t].kind = "esc" /\ task[t].pc = "escWrite" /\ task'[t].pc = "done"

(* C9: an escalation write never changes updatedAt and sets mentionLevel to
   the level just mentioned; so, with no user action, u_k is mentioned at the
   first tick at or after T0 + k * 5 min, counted from the emission time T0 *)
C9_EscalationKeepsUpdatedAt ==
  /\ []C9_Timing
  /\ [][ \A t \in Slots :
           EscalationWrites(t) =>
             /\ Exists(stored) /\ Exists(stored')
             /\ stored'[1].updatedAt = stored[1].updatedAt
             /\ stored'[1].updatedAt = task[t].stored[1].updatedAt
             /\ IsEscalationPost(posts)
             /\ stored'[1].mentionLevel = posts[Len(posts)].level ]_vars

C9_Witness ==
  /\ nClicks = 0
  /\ Exists(stored)
  /\ stored[1].mentionLevel = 2
  /\ \E i, j \in EscalationPosts :
       /\ posts[i].level = 1 /\ posts[j].level = 2
       /\ posts[i].base = stored[1].updatedAt /\ posts[j].base = stored[1].updatedAt
       /\ posts[i].user = "u1" /\ posts[j].user = "u2"
       /\ posts[j].at = stored[1].updatedAt + 2 * MENTION_ESCALATION_STEP_MS
       /\ posts[j].at - posts[i].at = MENTION_ESCALATION_STEP_MS

(* C10: while the record exists and its state stays firing, mentionLevel never
   decreases from one persisted version to the next *)
C10_MentionLevelMonotone ==
  [][ /\ Exists(stored) /\ Exists(stored')
      /\ stored[1].state = "firing" /\ stored'[1].state = "firing"
      => Level(stored'[1]) >= Level(stored[1]) ]_vars

(* Task t is past the dedup gate and its processor has read the prior record *)
PastLoad(t) ==
  /\ task[t].kind = "alert"
  /\ task[t].pc \notin {"clearDedup", "isDuplicateGet", "isDuplicateSetex", "load"}
  /\ task[t].outcome \notin {"no_config", "dedup"}

(* The prior record the processor of task t read is in state `state` *)
PriorIs(t, state) ==
  PastLoad(t) /\ Exists(task[t].stored) /\ task[t].stored[1].state = state

(* Time since the prior record of task t was resolved *)
SinceResolved(t) ==
  LET r == task[t].stored[1]
  IN now - (IF r.resolvedAt # NoNum THEN r.resolvedAt ELSE r.updatedAt)

Sent(t) == task[t].pc = "done" /\ task[t].outcome = "sent"

(* The emit of task t ended on a message and thread that did not exist before *)
BrandNew(t) ==
  /\ task[t].msg \notin task[t].pre.messages
  /\ task[t].msg # task[t].stored[1].messageId
  /\ task[t].thread # task[t].stored[1].threadId
  /\ Exists(stored)
  /\ stored[1].messageId = task[t].msg
  /\ stored[1].threadId = task[t].thread

(* C11: an alert past the dedup gate whose prior record is resolved: more than
   30 min after resolvedAt the processor deletes the record before the emit
   starts, so the emit finds none and a successful emit ends on a brand-new
   message and thread; at most 30 min after, the processor deletes nothing,
   the emit finds the record as it was and edits its message, and an emit
   that ends on an earlier message ends on that messageId *)
C11_ResolvedExpiry ==
  \A t \in Slots :
    PriorIs(t, "resolved") =>
      IF SinceResolved(t) > RESOLVED_NEW_ALERT_AFTER_MS
        THEN /\ task[t].pc \in {"deleteResolved", "emit"} \/ task[t].emits > 0
             /\ task[t].pc = "emit" => ~Exists(stored)
             /\ task[t].emits > 0 => ~Exists(task[t].sstored)
             /\ task[t].pc \notin {"edit", "repeat", "writeUpdate"}
             /\ Sent(t) => BrandNew(t)
        ELSE /\ task[t].pc \notin {"deleteResolved", "deleteAck"}
             /\ task[t].pc = "emit" => stored = task[t].stored
             /\ task[t].emits > 0 => task[t].sstored = task[t].stored
             /\ task[t].pc \notin {"edit", "repeat", "writeUpdate"} =>
                  task[t].pc \in {"emit", "send", "startThread", "writeCreate", "audit", "done"}
             /\ Sent(t) /\ task[t].msg \in task[t].pre.messages =>
                  /\ task[t].msg = task[t].stored[1].messageId
                  /\ stored[1].messageId = task[t].stored[1].messageId

C11_Witness ==
  \E t \in Slots :
    /\ PriorIs(t, "resolved")
    /\ SinceResolved(t) > RESOLVED_NEW_ALERT_AFTER_MS
    /\ task[t].payload.status = "firing"
    /\ Sent(t)
    /\ BrandNew(t)
    /\ task[t].stored[1].messageId \in messages

(* The other side of the threshold: a repeat exactly 20 min after the resolve *)
C11_ReuseReached ==
  \E t \in Slots :
    /\ PriorIs(t, "resolved")
    /\ SinceResolved(t) <= RESOLVED_NEW_ALERT_AFTER_MS
    /\ SinceResolved(t) > 0
    /\ Sent(t)
    /\ task[t].msg = task[t].stored[1].messageId

(* Time since the prior record of task t was acknowledged *)
SinceAcknowledged(t) == now - task[t].stored[1].acknowledgedAt

(* The posts of kind `kind` made since the alert of task t was submitted *)
Posted(t, kind) ==
  { i \in (task[t].pre.posts + 1)..Len(posts) : posts[i].kind = kind }

(* The emit of task t ended on the message of the prior record *)
Reused(t) ==
  /\ task[t].msg = task[t].stored[1].messageId
  /\ Exists(stored)
  /\ stored[1].messageId = task[t].stored[1].messageId
  /\ stored[1].threadId = task[t].stored[1].threadId

(* C12: a firing alert past the dedup gate whose prior record is acknowledged
   has an outcome fixed by the time since acknowledgedAt alone: up to 60 min
   the record is kept, message and thread are reused, the repeat notice is
   posted and nobody is mentioned; over 60 and up to 90 min the same plus a
   mention of mentions[0]; over 90 min the record is deleted before the emit
   and a new message and thread are created *)
C12_AckRepeatByAge ==
  \A t \in Slots :
    PriorIs(t, "acknowledged") /\ task[t].payload.status = "firing"
      /\ task[t].stored[1].acknowledgedAt # NoNum =>
      IF SinceAcknowledged(t) > ACK_NEW_INCIDENT_AFTER_MS
        THEN /\ task[t].emits > 0 => ~Exists(task[t].sstored)
             /\ Sent(t) => BrandNew(t)
        ELSE /\ task[t].pc \notin {"deleteResolved", "deleteAck"}
             /\ task[t].emits > 0 => task[t].sstored = task[t].stored
             /\ Sent(t) /\ task[t].msg \in task[t].pre.messages =>
                  /\ Reused(t)
                  /\ Posted(t, "repeat") # {}
                  /\ IF SinceAcknowledged(t) > ACK_REMINDER_AFTER_MS
                       THEN \E i \in Posted(t, "reminder") :
                              posts[i].user = AlertsConfig.HighCPU.mentions[1]
                       ELSE Posted(t, "reminder") = {}

(* The incident thread of the prior record of task t is still there *)
ThreadThere(t) == task[t].stored[1].threadId \in threads

(* C13: a firing alert at most 30 min after its incident was resolved, whose
   message still exists and is edited: on return the record keeps the
   messageId, its state is firing again, resolvedAt and acknowledgedAt are the
   earlier values, and the repeat notice is in the incident thread when that
   thread still exists *)
C13_ReopenWithinWindow ==
  [][ \A t \in Slots :
        /\ PriorIs(t, "resolved")
        /\ task[t].payload.status = "firing"
        /\ SinceResolved(t) <= RESOLVED_NEW_ALERT_AFTER_MS
        /\ Completes(t)
        /\ task'[t].outcome = "sent"
        /\ task'[t].msg = task[t].stored[1].messageId
        => /\ Exists(stored')
           /\ stored'[1].messageId = task[t].stored[1].messageId
           /\ stored'[1].state = "firing"
           /\ stored'[1].resolvedAt = task[t].stored[1].resolvedAt
           /\ stored'[1].acknowledgedAt = task[t].stored[1].acknowledgedAt
           /\ stored'[1].resolvedBy = task[t].stored[1].resolvedBy
           /\ ThreadThere(t)' =>
                \E i \in (task[t].pre.posts + 1)..Len(posts') : posts'[i].kind = "repeat"
    ]_vars

C13_Witness ==
  \E t \in Slots :
    /\ PriorIs(t, "resolved")
    /\ task[t].payload.status = "firing"
    /\ Sent(t)
    /\ Reused(t)
    /\ ThreadThere(t)
    /\ Posted(t, "repeat") # {}
    /\ stored[1].state = "firing"
    /\ stored[1].resolvedAt # NoNum
    /\ stored[1].acknowledgedAt # NoNum
    /\ stored[1].resolvedBy # Undef

(* The button handler of task t returns in this step *)
Returns(t, kind) ==
  task[t].kind = kind /\ task[t].pc # "done" /\ task'[t].pc = "done"

(* max(rule.suppressWindowMs, 10 min) of the rule of record r *)
AckWindow(r) ==
  Max(SuppressWindowMs(getAlertsConfig(r.ruleName)), 10 * 60 * 1000)

(* A firing alert arrives while the acknowledge window of its record is open;
   no emit has failed, so no resolved event cleared the dedup entry and then
   failed to mark the record resolved *)
InsideAckWindow(t) ==
  /\ IsAlert(t, "firing")
  /\ metrics.discordErrors = 0
  /\ Exists(task[t].pre.stored)
  /\ task[t].pre.stored[1].state = "acknowledged"
  /\ now < task[t].pre.stored[1].acknowledgedAt + AckWindow(task[t].pre.stored[1])

(* C14: Acknowledge on an existing record: on return the record is
   acknowledged by the acting user at the current time, the dedup entry
   expires max(rule.suppressWindowMs, 10 min) from now, and messageId,
   channelId, threadId, ruleName, severity and mentionLevel are as before; a
   firing alert arriving inside that window is suppressed *)
C14_AcknowledgeFrame ==
  /\ [](\A t \in Slots :
          InsideAckWindow(t) =>
            /\ WasInDedup(t)
            /\ task[t].emits = 0
            /\ task[t].pc = "done" => task[t].outcome = "dedup")
  /\ [][ \A t \in Slots :
           Returns(t, "ack") /\ Exists(task[t].pre.stored) =>
             LET old == task[t].pre.stored[1]
             IN /\ task'[t].outcome = "acknowledged"
                /\ Exists(stored')
                /\ stored'[1].state = "acknowledged"
                /\ stored'[1].acknowledgedBy = task[t].user
                /\ stored'[1].acknowledgedAt = now
                /\ dedupExp' = now + AckWindow(old)
                /\ stored'[1].messageId = old.messageId
                /\ stored'[1].channelId = old.channelId
                /\ stored'[1].threadId = old.threadId
                /\ stored'[1].ruleName = old.ruleName
                /\ stored'[1].severity = old.severity
                /\ stored'[1].mentionLevel = old.mentionLevel ]_vars

(* A repeat 8 min after the acknowledge: outside the rule's 5 min window,
   inside the 10 min one *)
C14_Witness ==
  \E t \in Slots :
    /\ InsideAckWindow(t)
    /\ now - task[t].pre.stored[1].acknowledgedAt
         > SuppressWindowMs(getAlertsConfig(task[t].payload.ruleName))
    /\ task[t].pc = "done" /\ task[t].outcome = "dedup"
    /\ task[t].pre.stored[1].acknowledgedBy \in Users
    /\ stored = task[t].pre.stored

(* The first firing alert after a Resolve click: the record is still the one
   the click wrote, and no emit has failed, so no firing alert passed the dedup
   gate and then failed to reopen the record *)
AfterResolveClick(t) ==
  /\ IsAlert(t, "firing")
  /\ metrics.discordErrors = 0
  /\ Exists(task[t].pre.stored)
  /\ task[t].pre.stored[1].state = "resolved"
  /\ task[t].pre.stored[1].resolvedBy \in Users
  /\ task[t].pre.stored[1].updatedAt = task[t].pre.stored[1].resolvedAt

(* C15: Resolve on an existing record: on return the record is still there
   with its threadId, resolved by the acting user at the current time, and the
   dedup entry is gone; the next firing alert is not dedup-suppressed *)
C15_ResolveFrame ==
  /\ [](\A t \in Slots :
          AfterResolveClick(t) =>
            /\ ~WasInDedup(t)
            /\ task[t].outcome # "dedup"
            /\ metrics.dedupSuppressed = task[t].pre.dedupSuppressed)
  /\ [][ \A t \in Slots :
           Returns(t, "resolve") /\ Exists(task[t].pre.stored) =>
             LET old == task[t].pre.stored[1]
             IN /\ task'[t].outcome = "resolved"
                /\ Exists(stored')
                /\ stored'[1].state = "resolved"
                /\ stored'[1].resolvedBy = task[t].user
                /\ stored'[1].resolvedAt = now
                /\ dedupExp' = 0
                /\ stored'[1].threadId = old.threadId
                /\ stored'[1].messageId = old.messageId ]_vars

(* The fingerprint was in the dedup set when Resolve was clicked, and the
   firing alert that follows is delivered *)
C15_Witness ==
  \E t \in Slots :
    /\ AfterResolveClick(t)
    /\ task[t].pre.stored[1].resolvedAt = now
    /\ Sent(t)
    /\ \E i \in 1..Len(audit) : audit[i].resolvedBy \in Users

(* Task t is the Acknowledge handler past its lookup, about to act *)
AckActs(t) ==
  /\ task[t].kind = "ack"
  /\ task[t].pc \in {"ackSetDedupTtl", "ackWrite"}
  /\ task'[t] # task[t]

(* C16: the Acknowledge handler moves a record to acknowledged only from
   firing; when the click reaches a resolved record the record stays resolved
   and the dedup entry is not touched *)
C16_AckOnlyFromFiring ==
  [][ \A t \in Slots :
        AckActs(t) /\ Exists(stored) =>
          /\ stored[1].state = "resolved" =>
               /\ Exists(stored') /\ stored'[1].state = "resolved"
               /\ dedupExp' = dedupExp
          /\ (Exists(stored') /\ stored'[1].state = "acknowledged"
                /\ stored[1].state # "acknowledged") =>
               stored[1].state = "firing" ]_vars

(* Queue messages i and j are the ALARM notification and the later OK
   notification of one alarm, and the adapter has normalised both *)
SameAlarm(i, j) ==
  /\ i < j
  /\ queue[i].parses /\ queue[j].parses
  /\ queue[i].envelope.AlarmName # Undef
  /\ queue[i].envelope.AlarmName = queue[j].envelope.AlarmName
  /\ queue[i].envelope.Subject = queue[j].envelope.Subject
  /\ queue[i].envelope.NewStateValue = "ALARM"
  /\ queue[j].envelope.NewStateValue = "OK"
  /\ queue[i].payload # NoPayload /\ queue[j].payload # NoPayload

(* C17: the firing (ALARM) and the resolved (OK) message of one alarm that came
   through the queue normalise to the same alertId and resource, and the
   resolved one is mirrored onto the chat message of the firing one, not onto
   another message *)
C17_StableIdentity ==
  \A i, j \in DOMAIN queue :
    SameAlarm(i, j) =>
      /\ queue[i].payload.alertId = queue[j].payload.alertId
      /\ queue[i].payload.resource = queue[j].payload.resource
      /\ (queue[i].result = "sent" /\ queue[j].result = "sent"
            => Cardinality(messages) = 1)

(* How the handling of a queue message ended when it was not a failure: the
   alert was mirrored to the chat or deliberately suppressed *)
ProcessedOk == {"sent", "dedup", "no_config"}

(* C18: the poller deletes a queue message only after the message was parsed
   and its alert processed successfully; a message whose parsing or processing
   failed is not deleted *)
C18_DeleteOnlyAfterSuccess ==
  \A i \in DOMAIN queue :
    /\ queue[i].status = "deleted" =>
         queue[i].parses /\ queue[i].result \in ProcessedOk
    /\ queue[i].result \in {"parse_failed", "threw", "failed"} =>
         queue[i].status # "deleted"

(* C19: processOneAlertPayload never throws, whatever fails inside it, and
   processAlerts never throws: after an alert of a batch failed it goes on to
   the remaining alerts, so the batch shrinks by one alert at a time *)
C19_NeverThrows ==
  /\ [](\A t \in Slots : task[t].outcome # "threw")
  /\ [][Len(batch') >= Len(batch) - 1]_vars

(* Task t is the processor awaiting the audit insert: the emit returned
   task[t].msg and the sent counter was incremented *)
AtAudit(t) == task[t].kind = "alert" /\ task[t].pc = "audit"

(* C20: the audit log grows only by one row, appended by a processor whose
   emit succeeded, once per processed alert and carrying the messageId the emit
   returned; an alert that ends suppressed or with a failed emit leaves the log
   as it was; when the insert fails the processor still returns normally, and
   the incident record and the sent counter stay as the emit left them *)
C20_AuditAfterEmit ==
  [][ /\ Len(audit') # Len(audit) =>
           \E t \in Slots :
             /\ AtAudit(t)
             /\ task[t].emits = 1
             /\ task[t].msg # NoNum
             /\ metrics.sent = task[t].pre.sent + 1
             /\ audit = task[t].pre.audit
             /\ Len(audit') = Len(audit) + 1
             /\ SubSeq(audit', 1, Len(audit)) = audit
             /\ audit'[Len(audit')].messageId = task[t].msg
             /\ task'[t].pc = "done" /\ task'[t].outcome = "sent"
      /\ \A t \in Slots :
           Completes(t) /\ task'[t].outcome \in {"no_config", "dedup", "failed", "threw"} =>
             audit' = task[t].pre.audit
      /\ \A t \in Slots :
           AtAudit(t) /\ Completes(t) /\ audit' = audit =>
             /\ task'[t].outcome = "sent"
             /\ stored' = stored
             /\ Exists(stored') /\ stored'[1].messageId = task[t].msg
             /\ metrics' = metrics
             /\ metrics'.sent = task[t].pre.sent + 1 ]_vars

(* An alert was delivered and logged, and the audit insert of the next
   delivered alert failed *)
C20_Witness ==
  \E t \in Slots :
    /\ task[t].kind = "alert" /\ Sent(t)
    /\ audit = task[t].pre.audit
    /\ Len(audit) = 1 /\ audit[1].messageId \in messages
    /\ metrics.sent = 2
    /\ Exists(stored) /\ stored[1].messageId = task[t].msg

(* Task t is a reconciler pass that ended in this step, after it had read a
   record that was not resolved *)
ReconEnds(t) ==
  /\ task[t].kind = "recon"
  /\ task[t].pc \in {"reconVerify", "reconDelete", "reconClearThread"}
  /\ task'[t].pc = "done"

(* C21: a reconciler pass deletes a record that is not resolved when the
   channel lookup gives nothing or a DM or non-text channel, and when the
   message fetch fails with code 10003 or 10008; it keeps the record when the
   message fetch fails with another error; it never deletes a resolved record *)
C21_ReconcilerDeletes ==
  [][ \A t \in Slots :
        /\ ReconEnds(t) =>
             LET ch == task'[t].channel
                 err == task'[t].err
             IN /\ ch \in {"null", "voice", "dm"} => stored' = << >>
                /\ ch = "text" /\ err \in {10003, 10008} => stored' = << >>
                /\ ch = "text" /\ err \notin {10003, 10008} =>
                     /\ Exists(stored')
                     /\ [stored'[1] EXCEPT !.threadId = NoNum]
                          = [task[t].stored[1] EXCEPT !.threadId = NoNum]
        /\ (task[t].kind = "recon" /\ task'[t] # task[t]
              /\ Exists(stored) /\ stored[1].state = "resolved") =>
             stored' = stored ]_vars

(* A pass kept the record of a deleted message because the fetch failed with
   an error that is not a gone code *)
C21_Witness ==
  \E t \in Slots :
    /\ task[t].kind = "recon" /\ task[t].pc = "done"
    /\ task[t].channel = "text" /\ task[t].err = 500
    /\ Exists(stored) /\ stored[1].messageId \notin messages

(* A request on one of the routes is answered in this step *)
Answered(routes) ==
  /\ response'.n # response.n
  /\ response'.route \in routes

(* The file at ALERT_CONFIG_PATH exists and holds a JSON object *)
FileIsJsonObject == fileData.kind = "json" /\ fileData.data.t = "object"

(* C22: a reload from a file that is missing, is not JSON or holds JSON that is
   no object is answered 400 and leaves the cached config, which the processor
   routes the following alerts with, and everything else exactly as it was *)
C22_FailedReloadKeepsCache ==
  [][ (Answered({"GET /reload", "POST /reload"}) /\ response'.authorized
        /\ ~FileIsJsonObject)
      => /\ response'.status = 400
         /\ ~reloadAlertsConfigSafe.ok
         /\ UNCHANGED <<configVars, dedupExp, stored, chatVars, metrics, audit,
                        task, feedVars>> ]_vars

(* A reload failed on a broken file while the cache held a config *)
C22_Witness ==
  /\ response.route = "POST /reload" /\ response.status = 400
  /\ fileData.kind = "invalid"
  /\ cachedConfig = AlertsConfig

(* The handler of POST /push-config is at its await of the save *)
PushPending == task[2].kind = "push" /\ task[2].pc = "pushSave"

(* C23: POST /push-config with a valid token answers 400 to a body that does
   not validate, changing neither the database nor the cache; 500 when the
   database write fails, with the cache (and the database row) as before; and
   200 otherwise, after which the cache, and the database as it is configured,
   hold exactly the config validateAlertsConfig made of the body *)
C23_PushConfig ==
  /\ [](PushPending => validateAlertsConfig(task[2].body).ok)
  /\ [][ /\ \A raw \in AuthorizationHeaders, body \in Bodies :
              (pushConfig(raw, body) /\ requireAuth(raw)
                 /\ ~validateAlertsConfig(body).ok)
              => response'.n # response.n /\ response'.status = 400
         /\ (Answered({"POST /push-config"}) /\ response'.authorized)
            => /\ response'.status \in {200, 400, 500}
               /\ response'.status = 400 => UNCHANGED <<configVars, task>>
               /\ response'.status = 500
                    => PushPending /\ UNCHANGED <<cachedConfig, dbConfig>>
               /\ response'.status = 200
                    => /\ PushPending
                       /\ cachedConfig' = validateAlertsConfig(task[2].body).config
                       /\ dbConfig' = IF DatabaseConfigured THEN cachedConfig'
                                                          ELSE dbConfig ]_vars

(* A pushed config was saved: cache and database hold it, the file does not *)
C23_Witness ==
  /\ response.route = "POST /push-config" /\ response.status = 200
  /\ cachedConfig = [default |-> AlertTypeConfig("c1", NoNum, << >>)]
  /\ dbConfig = cachedConfig
  /\ fileData = [kind |-> "json", data |-> Serialize(AlertsConfig)]

(* A value of the config object that is no object with a string channelId *)
LacksChannelId(value) == value.t # "object" \/ value.channelId.t # "string"

(* C24: validateAlertsConfig rejects null, arrays, primitives and every
   document with an entry that has no string channelId; validating the
   serialized form of a well-typed config returns that config, so validating
   twice is validating once; and the non-string elements of mentions are
   dropped.  Stated for every document a request can carry and for the
   document and config the handler of POST /push-config holds at its await *)
C24_ValidateAlertsConfig ==
  /\ \A data \in Bodies :
       (data.t # "object" \/ \E k \in DOMAIN data.entries : LacksChannelId(data.entries[k]))
         => ~validateAlertsConfig(data).ok
  /\ \A c \in WellTypedConfigs \cup {dbConfig} :
       /\ validateAlertsConfig(Serialize(c)).ok
       /\ validateAlertsConfig(Serialize(c)).config = c
  /\ \A data \in Bodies :
       validateAlertsConfig(data).ok
         => validateAlertsConfig(Serialize(validateAlertsConfig(data).config)).config
              = validateAlertsConfig(data).config
  /\ validateAlertsConfig(MixedMentions).ok
  /\ validateAlertsConfig(MixedMentions).config["HighCPU"].mentions = <<"u1", "u2">>
  /\ PushPending
       => /\ task[2].config = validateAlertsConfig(task[2].body).config
          /\ validateAlertsConfig(Serialize(task[2].config)).config = task[2].config
          /\ \A k \in DOMAIN task[2].config :
               Len(task[2].config[k].mentions)
                 = Len(SelectSeq(task[2].body.entries[k].mentions.items,
                                 LAMBDA x : x.t = "string"))

(* The handler validated a body whose mentions hold a number and dropped it *)
C24_Witness ==
  /\ PushPending
  /\ task[2].body = MixedMentions
  /\ task[2].config["HighCPU"].mentions = <<"u1", "u2">>

(* C25: with a bearer token configured, a request without the valid token is
   answered 401 on every endpoint and starts no alert processing and changes
   neither config, cache nor guides *)
C25_EveryEndpointRequiresToken ==
  [][ (response'.n # response.n /\ ~response'.authorized)
      => /\ response'.status = 401
         /\ UNCHANGED <<configVars, feedVars, task, dedupExp, stored, chatVars,
                        metrics, audit>> ]_vars

(* processAlerts drops the alert at the head of the batch as no_config *)
SuppressedNoConfig ==
  /\ batch # << >> /\ batch' = Tail(batch)
  /\ task[1].pc = "idle" /\ task'[1].pc = "idle"

(* C26: the default entry of the config is a catch-all: an alert whose rule
   name has no entry of its own is suppressed as no_config only when the config
   has no default entry with a channel either *)
C26_DefaultIsCatchAll ==
  [][ SuppressedNoConfig
      => \/ "default" \notin DOMAIN cachedConfig
         \/ cachedConfig["default"].channelId = Undef ]_vars

(* The lifecycle-expiry step of task t deletes the prior record in this step *)
ExpiryDeletes(t) ==
  /\ task[t].kind = "alert"
  /\ task[t].pc \in {"deleteResolved", "deleteAck"}
  /\ task'[t].pc # task[t].pc

(* C27: the expiry step deletes the prior record only when its state is
   resolved and its resolve is more than 30 min old, or its state is
   acknowledged and its acknowledge is more than 90 min old; never a firing
   record, whatever resolvedAt it carries *)
C27_ExpiryByState ==
  [][ \A t \in Slots :
        ExpiryDeletes(t)
        => LET s == task[t].stored[1]
           IN \/ /\ s.state = "resolved"
                 /\ now - (IF s.resolvedAt # NoNum THEN s.resolvedAt ELSE s.updatedAt)
                      > RESOLVED_NEW_ALERT_AFTER_MS
              \/ /\ s.state = "acknowledged"
                 /\ s.acknowledgedAt # NoNum
                 /\ now - s.acknowledgedAt > ACK_NEW_INCIDENT_AFTER_MS ]_vars

(* The emit of task t, which had read a record with a messageId, posts a new
   chat message in this step *)
PostsNewDespiteRecord(t) ==
  /\ task[t].kind = "alert" /\ task[t].pc = "send"
  /\ messages' # messages
  /\ Exists(task[t].sstored)
  /\ task[t].sstored[1].messageId # NoNum

(* C28: when the prior record has a messageId, sendOrUpdateAlert posts a new
   chat message only if the stored message is gone; a transient error of the
   edit or a failed record write after the edit creates no new message *)
C28_NewMessageOnlyWhenGone ==
  [][ \A t \in Slots :
        PostsNewDespiteRecord(t) => task[t].sstored[1].messageId \notin messages ]_vars

(* The scan of task t persists its record in this step *)
ScanWrites(t) ==
  /\ task[t].kind \in {"esc", "recon"}
  /\ task[t].pc \in {"escWrite", "reconClearThread"}
  /\ task'[t].pc = "done"

(* C29: the write of an escalation tick or of a reconciler pass leaves the
   state, acknowledgedBy/At, resolvedBy/At, messageId and updatedAt of the
   record as they are in the store at that moment, whatever was persisted
   since the scan read the record; it changes only mentionLevel or threadId *)
C29_ScansWriteOwnFields ==
  [][ \A t \in Slots :
        (ScanWrites(t) /\ Exists(stored))
        => /\ Exists(stored')
           /\ \A f \in {"state", "acknowledgedBy", "acknowledgedAt", "resolvedBy",
                        "resolvedAt", "messageId", "updatedAt"} :
                stored'[1][f] = stored[1][f] ]_vars

(* The update path of the emit of task t persists its record in this step *)
EmitUpdateWrites(t) ==
  /\ task[t].kind = "alert" /\ task[t].pc = "writeUpdate"
  /\ task'[t].pc \in {"audit", "done"}

(* C30: an Acknowledge or Resolve that runs while an emit for the incident is
   in flight is serialized with it: the record the emit's update path writes is
   one a sequential order produces, so it keeps the acknowledgedBy/At and the
   resolvedBy/At found in the store (a resolved alert sets resolvedAt anew) *)
C30_UserActionsSerialized ==
  [][ \A t \in Slots :
        (EmitUpdateWrites(t) /\ Exists(stored))
        => /\ stored'[1].acknowledgedBy = stored[1].acknowledgedBy
           /\ stored'[1].acknowledgedAt = stored[1].acknowledgedAt
           /\ stored'[1].resolvedBy = stored[1].resolvedBy
           /\ task[t].payload.status # "resolved"
                => stored'[1].resolvedAt = stored[1].resolvedAt ]_vars

(* C31: the alertId and resource the escalation loop and the reconciler derive
   from an enumerated key address the record stored under that key: no record
   in the store goes unexamined by a scan *)
C31_LoopsReachEveryRecord ==
  \A i \in DOMAIN queue : queue[i].scanned \in {"none", "found"}

(* C40: every button of an emitted firing message addresses its incident: the
   alertId and resource a button handler decodes from the custom id are those
   under which the record was persisted *)
C40_ButtonsAddressIncident ==
  \A i \in DOMAIN queue : queue[i].clicked \in {"none", "found"}

(* C32: escalation ticks never overlap, so for a firing incident that is not
   emitted again each responder mentions[i] is pinged at most once: no two
   escalation posts carry the same level *)
C32_TicksNeverOverlap ==
  \A i, j \in EscalationPosts : posts[i].level = posts[j].level => i = j

(* The escalation loop posts a mention in this step *)
EscalationPosted == Len(posts') > Len(posts) /\ IsEscalationPost(posts')

(* C33: with a fixed config, mentionLevel never exceeds the length of the
   rule's mentions list; the loop pings the responders in list order without
   skipping a level; once mentionLevel equals the length of the list no
   further escalation mention is posted *)
C33_EscalationInListOrder ==
  /\ [](Exists(stored) =>
          Level(stored[1]) <= Len(getAlertsConfig(stored[1].ruleName).mentions))
  /\ [][ EscalationPosted /\ Exists(stored) =>
           LET mentions == getAlertsConfig(stored[1].ruleName).mentions
               post == posts'[Len(posts')]
           IN /\ Level(stored[1]) < Len(mentions)
              /\ post.level <= Level(stored[1]) + 1
              /\ post.user = mentions[post.level] ]_vars

(* C34: a firing alert is not lost to a failed chat emit: when sendOrUpdateAlert
   has failed for a firing alert that passed the dedup gate, no dedup entry is
   left that would suppress the retransmission of the alert inside the
   suppress window *)
C34_FailedEmitLeavesNoDedup ==
  \A t \in Slots :
    IsAlert(t, "firing") /\ task[t].pc = "done" /\ task[t].outcome = "failed"
      => dedupExp <= now

(* C35: for a webhook alert with no alertname label and alert_type = X the
   canonical alert has ruleName X, so the channel, the suppress window and
   the rule stored in the record are those of the config entry X *)
C35_AlertTypeIsRuleName ==
  /\ batch # << >>
  /\ Head(batch).alertname = Undef /\ Head(batch).alert_type # Undef
  /\ task[1].kind = "alert"
  => /\ task[1].payload.ruleName = Head(batch).alert_type
     /\ Exists(stored) => stored[1].ruleName = Head(batch).alert_type

(* C36: every ingested alert whose rule is absent from the config or lacks a
   channelId increments the received counter and the no-config-suppressed
   counter exactly once each, and causes no dedup access, no incident-store
   access and no chat emit *)
C36_NoConfigCountedOnce ==
  [][ \/ SuppressedNoConfig
      \/ nAlerts' = nAlerts + 1 /\ task'[1].outcome = "no_config"
      => /\ metrics'.received = metrics.received + 1
         /\ metrics'.noConfig = metrics.noConfig + 1
         /\ UNCHANGED <<dedupExp, stored, chatVars>> ]_vars

(* C37: the audit log is append-only: once a row is inserted no operation
   changes any of its fields; acknowledge, resolve and later alerts only add
   rows *)
C37_AuditAppendOnly ==
  [][ /\ Len(audit') >= Len(audit)
      /\ \A i \in 1..Len(audit) : audit'[i] = audit[i] ]_vars

(* C38: after any sequence of bootstrap, reload-from-file and push-config the
   cached config is validated: every entry is an object with a string
   channelId; a file with an entry that has no string channelId is rejected by
   reload and does not reach the cache *)
C38_CachedConfigValidated ==
  \A k \in DOMAIN cachedConfig : cachedConfig[k].channelId # Undef

(* The status of the i-th message of the queue, once it has arrived *)
StatusOf(i) == IF i \in DOMAIN queue THEN queue[i].status ELSE "absent"

(* C39: the queue poll loop never stops because of an error: a message whose
   parsing or processing fails does not keep the remaining messages of the
   batch from being processed (a received message leaves that status only
   when the loop reaches it, and it is eventually handled), and after every
   poll cycle another one starts (a visible message is eventually received) *)
C39_PollLoopNeverStops ==
  /\ [][ \A i \in DOMAIN queue :
           queue[i].status = "received" => queue'[i].status \in {"received", "current"} ]_vars
  /\ \A i \in 1..MaxQueueMessages :
       (StatusOf(i) = "received") ~> (StatusOf(i) \in {"deleted", "invisible"})
  /\ \A i \in 1..MaxQueueMessages :
       (StatusOf(i) = "visible") ~> (StatusOf(i) = "received")

(* A message failed, the next message of the batch was emitted, and the failed
   message was received again by a later poll cycle *)
C39_Witness ==
  \E i, j \in DOMAIN queue :
    /\ i < j
    /\ queue[i].result \in {"parse_failed", "threw"}
    /\ queue[i].receives >= 2
    /\ queue[j].status = "deleted" /\ queue[j].result = "sent"
    /\ queue[j].receives = 1

====
